---- MODULE Spec2Model ----
(***************************************************************************)
(* Verification model of the orchestration core of agentic-employee-v2:   *)
(* the agent loop (core/types.ts), the plan runner (core/orchestrator.ts), *)
(* the tool dispatcher (tools/executor), the journal (journal/index.ts),   *)
(* the sandbox policy, the provider router (ai/router.ts) and withRetry    *)
(* (core/retry.ts).                                                        *)
(* Each subsystem has its own specification over its own variables; the    *)
(* variables of the other subsystems stay at their idle values.            *)
(***************************************************************************)
EXTENDS Integers, Sequences, FiniteSets, TLC

\* ------------------------------------------------------------------- state
VARIABLES
  \* agent loop (AgentLoop.run)
  maxIterations, maxToolCalls, iterations, totalToolCalls, errors,
  finalResponse, messages, agentPc, pendingCalls, toolExecs, result,
  \* what the LM behind the router and the tools may answer during the run
  lm,
  \* the filesystem under the working directory, and as it was at the start
  fs, fs0,
  \* journal file of the run, backup directory, entry id source
  journal, backups, nextEntry,
  \* tool dispatcher: calls made, subprocesses launched, last rollback call
  calls, spawned, lastRollback, rbCount,
  \* plan runner (runSteps)
  steps, ordered, runPc, stepIdx, attempt, ok, retries, fallbacks, events, execs,
  report,
  \* provider router (AIRouter.complete)
  rconfig, routerPc, chain, selection, requested, response,
  \* one call of withRetry
  retryCfg, retryPc, retryAttempt, invocations, sleeps, lastErr

agentVars == <<maxIterations, maxToolCalls, iterations, totalToolCalls, errors,
               finalResponse, messages, agentPc, pendingCalls, toolExecs, result, lm>>
fsVars == <<fs, fs0>>
journalVars == <<journal, backups, nextEntry>>
toolVars == <<calls, spawned, lastRollback, rbCount>>
planVars == <<steps, ordered, runPc, stepIdx, attempt, ok, retries, fallbacks, events,
              execs, report>>
routerVars == <<rconfig, routerPc, chain, selection, requested, response>>
retryVars == <<retryCfg, retryPc, retryAttempt, invocations, sleeps, lastErr>>
vars == <<agentVars, fsVars, journalVars, toolVars, planVars, routerVars, retryVars>>

\* What each subsystem leaves alone.
outsideAgent == <<fsVars, journalVars, toolVars, planVars, routerVars, retryVars>>
outsideTools == <<agentVars, planVars, routerVars, retryVars>>
outsidePlan == <<agentVars, journalVars, toolVars, routerVars, retryVars>>
outsideRouter == <<agentVars, fsVars, journalVars, toolVars, planVars, retryVars>>
outsideRetry == <<agentVars, fsVars, journalVars, toolVars, planVars, routerVars>>

\* ------------------------------------------------------------------ bounds
MaxIter == 2         \* largest maxIterations budget explored
MaxBudget == 2       \* largest maxToolCalls budget explored
MaxCalls == 2        \* most tool calls in one assistant turn

\* ------------------------------------------------------------- agent loop
NoId == <<>>
NoResult == [returned |-> FALSE]

\* Assistant texts the LM may produce, as word sequences.
Contents == { <<"still", "working">>,
              <<"calling", "tools">>,
              <<"All", "Done">>,
              <<"the", "job", "is", "FINISHED">> }

\* String.prototype.toLowerCase on one word.
toLowerCase(w) ==
  CASE w = "All" -> "all"
    [] w = "Done" -> "done"
    [] w = "FINISHED" -> "finished"
    [] w = "Latest" -> "latest"
    [] OTHER -> w

completionIndicators ==
  { <<"task", "complete">>, <<"objective", "complete">>,
    <<"successfully", "completed">>, <<"all", "done">>, <<"finished">>,
    <<"completed", "successfully">>, <<"mission", "accomplished">> }

\* lowerContent.includes(indicator): the indicator occurs contiguously.
includes(content, indicator) ==
  \E i \in 1..Len(content) :
     /\ i + Len(indicator) - 1 <= Len(content)
     /\ \A j \in 1..Len(indicator) : content[i + j - 1] = indicator[j]

isCompletionMessage(content) ==
  LET lowerContent == [i \in 1..Len(content) |-> toLowerCase(content[i])]
  IN  \E indicator \in completionIndicators : includes(lowerContent, indicator)

FinishReasons == {"stop", "tool_calls", "length"}

\* The tool calls of the assistant turn of iteration it: ids unique in the run.
ToolCalls(it, n) == [k \in 1..n |-> [id |-> <<it, k>>, name |-> "think"]]

AssistantMsg(content, toolCalls) ==
  [role |-> "assistant", content |-> content, tool_calls |-> toolCalls, tool_call_id |-> NoId]
UserMsg(content) ==
  [role |-> "user", content |-> content, tool_calls |-> <<>>, tool_call_id |-> NoId]
SystemMsg(content) ==
  [role |-> "system", content |-> content, tool_calls |-> <<>>, tool_call_id |-> NoId]
ToolMsg(content, id) ==
  [role |-> "tool", content |-> content, tool_calls |-> <<>>, tool_call_id |-> id]

AgentIdle ==
  /\ maxIterations = 0 /\ maxToolCalls = 0 /\ iterations = 0 /\ totalToolCalls = 0
  /\ errors = <<>> /\ finalResponse = <<>> /\ messages = <<>> /\ agentPc = "idle"
  /\ pendingCalls = <<>> /\ toolExecs = 0 /\ result = NoResult /\ lm = <<>>

\* The environment of one run: the texts the LM may answer with, the number
\* of tool calls it may put in one turn, and whether dispatched tools succeed.
Environment(contents, sizes, outcomes) ==
  [contents |-> contents, sizes |-> sizes, outcomes |-> outcomes]

\* AgentLoop constructor and the head of run(): budgets, seeded history, counters.
AgentInit ==
  /\ maxIterations \in 0..MaxIter
  /\ maxToolCalls \in 0..MaxBudget
  /\ iterations = 0
  /\ totalToolCalls = 0
  /\ errors = <<>>
  /\ finalResponse = <<>>
  /\ messages = << SystemMsg(<<"system", "prompt">>), UserMsg(<<"objective">>) >>
  /\ agentPc = "loop"
  /\ pendingCalls = <<>>
  /\ toolExecs = 0
  /\ result = NoResult
  /\ lm = Environment(Contents, 0..MaxCalls, BOOLEAN)

\* while (iterations < maxIterations)
LoopGuard == iterations < maxIterations

\* router.complete throws: the catch block of the iteration.
AgentRouterError ==
  /\ agentPc = "loop" /\ LoopGuard
  /\ iterations' = iterations + 1
  /\ errors' = Append(errors, "iteration error")
  /\ messages' = Append(messages, UserMsg(<<"An", "error", "occurred">>))
  /\ UNCHANGED <<outsideAgent, lm, maxIterations, maxToolCalls, totalToolCalls, finalResponse,
                 agentPc, pendingCalls, toolExecs, result>>

\* if (finish_reason === 'stop' || !tool_calls?.length)
NoToolBranch(finish, toolCalls) == finish = "stop" \/ Len(toolCalls) = 0

\* if (iterations > 1) push the continue prompt
ContinuePromptDue(it) == it > 1

\* A response taking the no-tool branch: completion check, continue prompt.
AgentNoToolTurn ==
  /\ agentPc = "loop" /\ LoopGuard
  /\ \E content \in lm.contents, finish \in FinishReasons, n \in lm.sizes :
       LET it == iterations + 1
           toolCalls == ToolCalls(it, n)
           pushed == Append(messages, AssistantMsg(content, toolCalls))
       IN  /\ NoToolBranch(finish, toolCalls)
           /\ iterations' = it
           /\ finalResponse' = content
           /\ IF isCompletionMessage(content)
                THEN /\ messages' = pushed
                     /\ agentPc' = "exit"
                ELSE /\ messages' = IF ContinuePromptDue(it)
                                      THEN Append(pushed, UserMsg(<<"Have", "you", "completed">>))
                                      ELSE pushed
                     /\ agentPc' = "loop"
  /\ UNCHANGED <<outsideAgent, lm, maxIterations, maxToolCalls, totalToolCalls, errors,
                 pendingCalls, toolExecs, result>>

\* A response with tool calls: the assistant message is pushed, the calls queued.
AgentToolTurn ==
  /\ agentPc = "loop" /\ LoopGuard
  /\ \E content \in lm.contents, finish \in FinishReasons, n \in lm.sizes :
       LET it == iterations + 1
           toolCalls == ToolCalls(it, n)
       IN  /\ ~NoToolBranch(finish, toolCalls)
           /\ iterations' = it
           /\ messages' = Append(messages, AssistantMsg(content, toolCalls))
           /\ pendingCalls' = toolCalls
           /\ agentPc' = "tools"
  /\ UNCHANGED <<outsideAgent, lm, maxIterations, maxToolCalls, totalToolCalls, errors,
                 finalResponse, toolExecs, result>>

\* Mutant: the budget test off by one.
BudgetReachedOffByOne == totalToolCalls > maxToolCalls

\* if (totalToolCalls >= maxToolCalls)
BudgetReached == totalToolCalls >= maxToolCalls

\* Mutant: the tool message correlated by tool name instead of call id.
ToolResultMsgByName(toolCall, success) ==
  ToolMsg(IF success THEN <<"output">> ELSE <<"error">>, <<toolCall.name>>)

\* messages.push({role:'tool', content: JSON.stringify(...), tool_call_id: toolCall.id})
ToolResultMsg(toolCall, success) ==
  ToolMsg(IF success THEN <<"output">> ELSE <<"error">>, toolCall.id)

\* Mutant: a failed dispatch leaves no trace in the errors list.
recordFailureDropped(errs, success) == errs

\* if (!result.success) errors.push(`Tool ${toolCall.name} failed: ...`)
recordFailure(errs, success) == IF success THEN errs ELSE Append(errs, "tool error")

\* for (const toolCall of tool_calls): the budget check stops the turn.
AgentBudgetStop ==
  /\ agentPc = "tools" /\ pendingCalls # <<>>
  /\ BudgetReached
  /\ errors' = Append(errors, "Max tool calls reached")
  /\ pendingCalls' = <<>>
  /\ agentPc' = "loop"
  /\ UNCHANGED <<outsideAgent, lm, maxIterations, maxToolCalls, iterations, totalToolCalls,
                 finalResponse, messages, toolExecs, result>>

\* One pass of the for loop: executeTool, the tool message, the error record.
AgentDispatch ==
  /\ agentPc = "tools" /\ pendingCalls # <<>>
  /\ ~BudgetReached
  /\ \E success \in lm.outcomes :
       LET toolCall == Head(pendingCalls)
       IN  /\ totalToolCalls' = totalToolCalls + 1
           /\ toolExecs' = toolExecs + 1
           /\ messages' = Append(messages, ToolResultMsg(toolCall, success))
           /\ errors' = recordFailure(errors, success)
           /\ pendingCalls' = Tail(pendingCalls)
           /\ agentPc' = IF Tail(pendingCalls) = <<>> THEN "loop" ELSE "tools"
  /\ UNCHANGED <<outsideAgent, lm, maxIterations, maxToolCalls, iterations, finalResponse, result>>

\* emitRunReport(ctx, steps, ok, retries, fallbacks, startedAt): the stats of
\* the RUN_REPORT event.
emitRunReport(stepCount, okCount, retryCount, fallbackCount) ==
  [steps |-> stepCount, ok |-> okCount, retries |-> retryCount, fallbacks |-> fallbackCount]

\* Loop exit (budget exhausted or completion break): run report and AgentResult.
AgentReturn ==
  /\ \/ agentPc = "exit"
     \/ agentPc = "loop" /\ ~LoopGuard
  /\ agentPc' = "done"
  /\ result' = [returned |-> TRUE, success |-> Len(errors) = 0,
                finalResponse |-> finalResponse, iterations |-> iterations,
                toolCalls |-> totalToolCalls, errors |-> errors,
                report |-> emitRunReport(iterations, iterations - Len(errors), 0, 0)]
  /\ UNCHANGED <<outsideAgent, lm, maxIterations, maxToolCalls, iterations, totalToolCalls, errors,
                 finalResponse, messages, pendingCalls, toolExecs>>

\* The budget-cap scenario: maxIterations 5, maxToolCalls 10, and an LM that
\* never says it is done.  It answers with one text, puts no, one, either or
\* MaxCalls + 1 tool calls in a turn, and the tools succeed or may fail.
S2Budget == [maxIterations |-> 5, maxToolCalls |-> 10]
Unfinished == { c \in Contents : ~isCompletionMessage(c) }
CapInit ==
  /\ maxIterations = S2Budget.maxIterations
  /\ maxToolCalls = S2Budget.maxToolCalls
  /\ iterations = 0
  /\ totalToolCalls = 0
  /\ errors = <<>>
  /\ finalResponse = <<>>
  /\ messages = << SystemMsg(<<"system", "prompt">>), UserMsg(<<"objective">>) >>
  /\ agentPc = "loop"
  /\ pendingCalls = <<>>
  /\ toolExecs = 0
  /\ result = NoResult
  /\ \E c \in Unfinished, sizes \in {{0}, {1}, {0, 1}, {MaxCalls + 1}},
        outcomes \in {{TRUE}, BOOLEAN} :
       lm = Environment({c}, sizes, outcomes)

AgentNext ==
  \/ AgentRouterError
  \/ AgentNoToolTurn
  \/ AgentToolTurn
  \/ AgentBudgetStop
  \/ AgentDispatch
  \/ AgentReturn

\* ------------------------------------------------- paths and the sandbox
\* A path string is a sequence of tokens; "/" is the separator token.  No
\* token is a prefix of another, so String.startsWith on the text is the
\* prefix relation on token sequences.
P_root == <<"demo_v2">>
P_main == <<"demo_v2", "/", "main.sh">>
P_sub == <<"demo_v2", "/", "sub">>
P_subf == <<"demo_v2", "/", "sub", "/", "f">>
P_outside == <<"outside">>
P_outmain == <<"outside", "/", "main.sh">>
P_passwd == <<"/", "etc", "/", "passwd">>

Paths == {P_root, P_main, P_sub, P_subf, P_outside, P_outmain, P_passwd}

\* SANDBOX.allowedRoot
allowedRoot == <<"demo_v2">>

\* String.prototype.startsWith
startsWith(str, prefix) ==
  /\ Len(prefix) <= Len(str)
  /\ \A i \in 1..Len(prefix) : str[i] = prefix[i]

\* SANDBOX.allowedTerminal = [/^\.\/demo_v2\/main\.sh(\s.*)?$/] on token text:
\* the script name, then nothing or a whitespace token followed by anything.
C_main == <<"./demo_v2/main.sh">>
C_mainArg == <<"./demo_v2/main.sh", " ", "--fast">>
C_mainGlued == <<"./demo_v2/main.sh", ";", "rm">>
C_rm == <<"rm", " ", "-rf", " ", "/">>
Commands == {C_main, C_mainArg, C_mainGlued, C_rm}

allowedTerminal(cmd) ==
  /\ Len(cmd) >= 1
  /\ cmd[1] = "./demo_v2/main.sh"
  /\ Len(cmd) > 1 => cmd[2] = " "

\* ensureUnderAllowed(path): TRUE when it returns, FALSE when it throws.
\* (The backslash replacement is the identity on these paths.)
ensureUnderAllowed(path) == startsWith(path, allowedRoot)

\* The segments of a path: the token runs between "/" tokens.
RECURSIVE SplitPath(_, _, _)
SplitPath(p, cur, acc) ==
  IF p = <<>> THEN Append(acc, cur)
  ELSE IF Head(p) = "/" THEN SplitPath(Tail(p), <<>>, Append(acc, cur))
  ELSE SplitPath(Tail(p), Append(cur, Head(p)), acc)

\* What the operating system resolves a path to: "." and empty segments are
\* dropped, ".." pops, a leading "/" starts at the absolute root (kept as the
\* node <<"/">> beside the working directory <<>>).
RECURSIVE ResolveSegs(_, _)
ResolveSegs(segs, acc) ==
  IF segs = <<>> THEN acc
  ELSE LET s == Head(segs)
       IN  IF s = <<>> \/ s = <<".">> THEN ResolveSegs(Tail(segs), acc)
           ELSE IF s = <<"..">>
             THEN ResolveSegs(Tail(segs),
                    IF acc = <<>> THEN acc ELSE SubSeq(acc, 1, Len(acc) - 1))
           ELSE ResolveSegs(Tail(segs), Append(acc, s))

Resolve(p) ==
  IF p # <<>> /\ Head(p) = "/"
    THEN ResolveSegs(SplitPath(Tail(p), <<>>, <<>>), << <<"/">> >>)
    ELSE ResolveSegs(SplitPath(p, <<>>, <<>>), <<>>)

\* ------------------------------------------------------------ filesystem
Prefixes(n) == { SubSeq(n, 1, k) : k \in 0..Len(n) }
Nodes == UNION { Prefixes(Resolve(p)) : p \in Paths }
Parent(n) == SubSeq(n, 1, Len(n) - 1)
IsPrefix(a, b) == Len(a) <= Len(b) /\ SubSeq(b, 1, Len(a)) = a
Leaves == { n \in Nodes : \A m \in Nodes : IsPrefix(n, m) => m = n }

None == [kind |-> "none", content |-> ""]
Dir == [kind |-> "dir", content |-> ""]
File(c) == [kind |-> "file", content |-> c]
FileContents == {"", "old", "new"}

exists(t, n) == t[n].kind # "none"

\* A well-formed tree: the working directory and the absolute root are
\* directories and every present node sits in a directory.
TreeOK(t) ==
  /\ t[<<>>] = Dir
  /\ \A n \in Nodes \ {<<>>} : exists(t, n) => t[Parent(n)].kind = "dir"

\* The trees a run may start from: /etc/passwd in place, "outside" a
\* directory, files at the leaves, directories above them.
InitialTrees ==
  { t \in [Nodes -> {None, Dir, File("old")}] :
      /\ TreeOK(t)
      /\ t[Resolve(P_passwd)] = File("old")
      /\ t[Resolve(P_outside)] = Dir
      /\ \A n \in Nodes \ Leaves : t[n] # File("old")
      /\ \A n \in Leaves : t[n] # Dir }

\* fs.writeFile(path, content): [ok, fs]
writeFile(t, n, c) ==
  IF n # <<>> /\ t[Parent(n)].kind = "dir" /\ t[n].kind # "dir"
    THEN [ok |-> TRUE, fs |-> [t EXCEPT ![n] = File(c)]]
    ELSE [ok |-> FALSE, fs |-> t]

\* fs.mkdir(path, {recursive: true})
mkdirRecursive(t, n) ==
  IF \A a \in Prefixes(n) : t[a].kind # "file"
    THEN [ok |-> TRUE, fs |-> [m \in Nodes |-> IF m \in Prefixes(n) THEN Dir ELSE t[m]]]
    ELSE [ok |-> FALSE, fs |-> t]

\* fs.chmod(path, mode): modes are not part of the tree.
chmod(t, n) == [ok |-> exists(t, n), fs |-> t]

\* fs.rm(path, {recursive: true, force: true})
rmRecursiveForce(t, n) ==
  [ok |-> TRUE, fs |-> [m \in Nodes |-> IF IsPrefix(n, m) /\ n # <<>> THEN None ELSE t[m]]]

\* fs.unlink(path)
unlink(t, n) ==
  IF t[n].kind = "file"
    THEN [ok |-> TRUE, fs |-> [t EXCEPT ![n] = None]]
    ELSE [ok |-> FALSE, fs |-> t]

\* fs.rmdir(path): only an empty directory goes.
rmdir(t, n) ==
  IF /\ n # <<>> /\ t[n].kind = "dir"
     /\ \A m \in Nodes : (IsPrefix(n, m) /\ m # n) => ~exists(t, m)
    THEN [ok |-> TRUE, fs |-> [t EXCEPT ![n] = None]]
    ELSE [ok |-> FALSE, fs |-> t]

\* fs.rename / fs.cp between leaves of the tree.
rename(t, src, dst) ==
  IF /\ exists(t, src) /\ dst # <<>> /\ t[Parent(dst)].kind = "dir"
     /\ (exists(t, dst) => t[dst].kind = t[src].kind)
    THEN [ok |-> TRUE, fs |-> IF src = dst THEN t
                              ELSE [t EXCEPT ![dst] = t[src], ![src] = None]]
    ELSE [ok |-> FALSE, fs |-> t]

cp(t, src, dst) ==
  LET made == mkdirRecursive(t, Parent(dst))
  IN  IF /\ exists(t, src) /\ dst # <<>> /\ made.ok
         /\ (exists(t, dst) => t[dst].kind = t[src].kind)
        THEN [ok |-> TRUE, fs |-> [made.fs EXCEPT ![dst] = t[src]]]
        ELSE [ok |-> FALSE, fs |-> t]

\* ---------------------------------------------------- execution layer
FSParamsOps == {"write", "mkdir", "chmod"}

\* execFilesystem(ctx, params): the envelope, the tree afterwards and whether
\* a filesystem call was issued.  Nothing is thrown: every failure is an
\* envelope with ok = false and code EXEC_ERROR (no thrown error carries the
\* code DENIED).
execFilesystem(t, op, path, content) ==
  IF op \notin FSParamsOps
    THEN [ok |-> FALSE, code |-> "EXEC_ERROR", fs |-> t, acted |-> FALSE]
  ELSE IF ~ensureUnderAllowed(path)
    THEN [ok |-> FALSE, code |-> "EXEC_ERROR", fs |-> t, acted |-> FALSE]
  ELSE LET n == Resolve(path)
           r == IF op = "mkdir" THEN mkdirRecursive(t, n)
                ELSE IF op = "write" THEN writeFile(t, n, content)
                ELSE chmod(t, n)
       IN  [ok |-> r.ok, code |-> IF r.ok THEN "OK" ELSE "EXEC_ERROR",
            fs |-> r.fs, acted |-> TRUE]

\* ---------------------------------------------------------------- journal
\* The journal state threaded through a handler: the run's .jsonl file, the
\* backup directory and the source of fresh entry ids.
JState == [journal |-> journal, backups |-> backups, nextEntry |-> nextEntry]

\* generateEntryId(): unique per entry.
generateEntryId(J) == <<"entry-", J.nextEntry>>

Entry(id, action, target, before, after, canRollback, hasBackup) ==
  [id |-> id, action |-> action, target |-> target, beforeState |-> before,
   afterState |-> after, canRollback |-> canRollback, rolledBack |-> FALSE,
   backupPath |-> hasBackup]

\* saveJournalEntry(entry): one more line at the end of the file.
saveJournalEntry(J, entry) == [J EXCEPT !.journal = Append(@, entry)]

journalFileCreate(J, path, content) ==
  LET id == generateEntryId(J)
  IN  [saveJournalEntry(J, Entry(id, "file_create", path, "null", content, TRUE, FALSE))
         EXCEPT !.nextEntry = @ + 1]

journalFileModify(J, path, originalContent, newContent) ==
  LET id == generateEntryId(J)
  IN  [saveJournalEntry(J, Entry(id, "file_modify", path, originalContent, newContent, TRUE, TRUE))
         EXCEPT !.nextEntry = @ + 1,
                !.backups = @ \cup {[id |-> id, content |-> originalContent]}]

journalFileDelete(J, path, originalContent) ==
  LET id == generateEntryId(J)
  IN  [saveJournalEntry(J, Entry(id, "file_delete", path, originalContent, "null", TRUE, TRUE))
         EXCEPT !.nextEntry = @ + 1,
                !.backups = @ \cup {[id |-> id, content |-> originalContent]}]

journalDirectoryCreate(J, path) ==
  LET id == generateEntryId(J)
  IN  [saveJournalEntry(J, Entry(id, "directory_create", path, "null", "", TRUE, FALSE))
         EXCEPT !.nextEntry = @ + 1]

journalTerminalCommand(J, cmd, output) ==
  LET id == generateEntryId(J)
  IN  [saveJournalEntry(J, Entry(id, "terminal_command", <<"terminal">>, "", output, FALSE, FALSE))
         EXCEPT !.nextEntry = @ + 1]

\* entries.find(e => e.id === entryId): the first line with that id, 0 if none.
findEntry(lines, entryId) ==
  LET S == { i \in 1..Len(lines) : lines[i].id = entryId }
  IN  IF S = {} THEN 0 ELSE CHOOSE i \in S : \A k \in S : i <= k

rollbackId(id) == <<"rollback-">> \o id
isRollbackRecord(id) == startsWith(id, <<"rollback-">>)

hasBackupFile(J, entry) ==
  entry.backupPath /\ \E b \in J.backups : b.id = entry.id
backupContent(J, entry) == (CHOOSE b \in J.backups : b.id = entry.id).content

\* The switch of rollbackEntry: [ok, fs] of undoing one entry on tree t.
undoEntry(t, J, entry) ==
  LET n == Resolve(entry.target)
  IN  CASE entry.action = "file_create" ->
             IF exists(t, n) THEN unlink(t, n) ELSE [ok |-> TRUE, fs |-> t]
        [] entry.action = "file_modify" ->
             IF hasBackupFile(J, entry) THEN writeFile(t, n, backupContent(J, entry))
             ELSE IF entry.beforeState # "" THEN writeFile(t, n, entry.beforeState)
             ELSE [ok |-> TRUE, fs |-> t]
        [] entry.action = "file_delete" ->
             IF hasBackupFile(J, entry)
               THEN LET made == mkdirRecursive(t, Parent(n))
                    IN  IF made.ok THEN writeFile(made.fs, n, backupContent(J, entry))
                        ELSE made
             ELSE IF entry.beforeState # "" /\ entry.beforeState # "null"
               THEN LET made == mkdirRecursive(t, Parent(n))
                    IN  IF made.ok THEN writeFile(made.fs, n, entry.beforeState)
                        ELSE made
             ELSE [ok |-> TRUE, fs |-> t]
        [] entry.action = "directory_create" -> rmdir(t, n)
        [] OTHER -> [ok |-> FALSE, fs |-> t]

\* rollbackEntry(entryId, runId): the journal is loaded from the file, the
\* three guards are tested on the loaded line, the undo is applied and, on
\* success, the rollback record is appended.  The rolledBack flag is set on
\* the loaded copy only: the original line of the file is not rewritten.
rollbackEntry(t, J, entryId) ==
  LET i == findEntry(J.journal, entryId)
  IN  IF i = 0 THEN [success |-> FALSE, fs |-> t, J |-> J, acted |-> FALSE]
      ELSE LET entry == J.journal[i]
           IN  IF ~entry.canRollback \/ entry.rolledBack
                 THEN [success |-> FALSE, fs |-> t, J |-> J, acted |-> FALSE]
               ELSE LET u == undoEntry(t, J, entry)
                        rollbackRecord == [entry EXCEPT !.rolledBack = TRUE,
                                                        !.id = rollbackId(entry.id)]
                    IN  IF u.ok
                          THEN [success |-> TRUE, fs |-> u.fs,
                                J |-> saveJournalEntry(J, rollbackRecord), acted |-> TRUE]
                          ELSE [success |-> FALSE, fs |-> u.fs, J |-> J, acted |-> TRUE]

\* entries.filter(e => e.canRollback && !e.rolledBack && !e.id.startsWith('rollback-')).reverse()
rollbackable(lines) ==
  LET keep == SelectSeq(lines, LAMBDA e : e.canRollback /\ ~e.rolledBack /\ ~isRollbackRecord(e.id))
  IN  [i \in 1..Len(keep) |-> keep[Len(keep) + 1 - i].id]

\* The for loop of rollbackRun over the ids chosen at the start.
\* (Each step's outcome is bound once, as a value, before the next step.)
RECURSIVE rollbackLoop(_, _, _, _)
rollbackLoop(t, J, ids, results) ==
  IF ids = <<>> THEN [fs |-> t, J |-> J, results |-> results]
  ELSE CHOOSE out \in
         { rollbackLoop(r.fs, r.J, Tail(ids),
                        Append(results, [entryId |-> Head(ids), success |-> r.success])) :
           r \in { rollbackEntry(t, J, Head(ids)) } } : TRUE

rollbackRun(t, J) ==
  LET out == rollbackLoop(t, J, rollbackable(J.journal), <<>>)
  IN  [success |-> \A i \in 1..Len(out.results) : out.results[i].success,
       results |-> out.results, fs |-> out.fs, J |-> out.J]

\* ------------------------------------------------------- tool dispatcher
MaxOps == 2          \* dispatcher calls per run
MaxRollbacks == 2    \* rollbackEntry / rollbackRun calls per run

FsToolOps == {"read", "write", "mkdir", "chmod", "list", "delete", "move", "copy"}
\* Arguments the declared schema of the filesystem tool rejects: an op outside
\* the enum, and no op at all (args.op is undefined).
BadOps == {"erase", "undefined"}
NoPath == <<>>
NoRollback == [kind |-> "none"]

\* executeFilesystem(ctx, args): what the switch does to the tree and the
\* journal, which nodes it reads, and whether it throws.
executeFilesystem(t, J, op, path, content, destination) ==
  LET n == Resolve(path)
      d == Resolve(destination)
      isFile == t[n].kind = "file"
  IN  CASE op = "write" ->
             \* existsSync + readFile, execFilesystem, then the journal entry
             LET r == execFilesystem(t, op, path, content)
             IN  [threw |-> FALSE, message |-> "", ok |-> r.ok, fs |-> r.fs,
                  reads |-> IF isFile THEN {n} ELSE {},
                  J |-> IF isFile THEN journalFileModify(J, path, t[n].content, content)
                        ELSE journalFileCreate(J, path, content)]
        [] op = "mkdir" ->
             LET r == execFilesystem(t, op, path, content)
             IN  [threw |-> FALSE, message |-> "", ok |-> r.ok, fs |-> r.fs, reads |-> {},
                  J |-> journalDirectoryCreate(J, path)]
        [] op = "chmod" ->
             LET r == execFilesystem(t, op, path, content)
             IN  [threw |-> FALSE, message |-> "", ok |-> r.ok, fs |-> r.fs, reads |-> {}, J |-> J]
        [] op = "read" ->
             [threw |-> ~isFile, message |-> IF isFile THEN "" ELSE "ENOENT", ok |-> isFile, fs |-> t,
              reads |-> IF isFile THEN {n} ELSE {}, J |-> J]
        [] op = "list" ->
             [threw |-> t[n].kind # "dir",
              message |-> IF t[n].kind = "dir" THEN "" ELSE "ENOTDIR", ok |-> t[n].kind = "dir", fs |-> t,
              reads |-> IF t[n].kind = "dir" THEN {n} ELSE {}, J |-> J]
        [] op = "delete" ->
             \* stat + readFile, fs.rm(recursive, force), journal when it was a file
             [threw |-> FALSE, message |-> "", ok |-> TRUE, fs |-> rmRecursiveForce(t, n).fs,
              reads |-> IF isFile THEN {n} ELSE {},
              J |-> IF isFile THEN journalFileDelete(J, path, t[n].content) ELSE J]
        [] op = "move" ->
             LET r == rename(t, n, d)
             IN  [threw |-> ~r.ok, message |-> IF r.ok THEN "" ELSE "ENOENT", ok |-> r.ok, fs |-> r.fs, reads |-> {}, J |-> J]
        [] op = "copy" ->
             LET r == cp(t, n, d)
             IN  [threw |-> ~r.ok, message |-> IF r.ok THEN "" ELSE "ENOENT", ok |-> r.ok, fs |-> r.fs,
                  reads |-> IF r.ok THEN {n} ELSE {}, J |-> J]
        [] OTHER ->
             \* throw new Error(`Unknown filesystem operation: ${op}`)
             [threw |-> TRUE, message |-> "Unknown filesystem operation", ok |-> FALSE, fs |-> t, reads |-> {}, J |-> J]

\* Mutant: TOOL_EXEC_END is emitted before the handler's outcome is known.
executeToolEndFirst(h) ==
  [success |-> ~h.threw, error |-> IF h.threw THEN h.message ELSE "",
   audit |-> <<"TOOL_EXEC_START", "TOOL_EXEC_END">>
                \o (IF h.threw THEN <<"TOOL_EXEC_ERROR">> ELSE <<>>)]

\* executeTool(ctx, toolName, args) around the outcome h of the handler the
\* switch selected: TOOL_EXEC_START first, then either TOOL_EXEC_END with
\* {success: true, output: result}, or the catch block, which emits
\* TOOL_EXEC_ERROR and returns {success: false, output: null, error}.
\* Nothing inspects the arguments or the handler's result in between.
executeTool(h) ==
  IF h.threw
    THEN [success |-> FALSE,
          error |-> IF h.message = "" THEN "Unknown error" ELSE h.message,
          audit |-> <<"TOOL_EXEC_START", "TOOL_EXEC_ERROR">>]
    ELSE [success |-> TRUE, error |-> "",
          audit |-> <<"TOOL_EXEC_START", "TOOL_EXEC_END">>]

ToolsInit ==
  /\ fs \in InitialTrees
  /\ fs0 = fs
  /\ journal = <<>> /\ backups = {} /\ nextEntry = 1
  /\ calls = <<>> /\ spawned = <<>> /\ lastRollback = NoRollback /\ rbCount = 0

\* The paths a tool call may name, and the (path, destination) pairs of move
\* and copy (leaves of the tree).
ToolPaths == {P_main, P_sub, P_subf, P_outmain, P_passwd}
MovePairs == { <<P_main, P_outmain>>, <<P_outmain, P_main>>, <<P_main, P_subf>> }

\* executeTool(ctx, 'filesystem', args)
ToolFilesystem ==
  /\ Len(calls) < MaxOps
  /\ \E op \in FsToolOps \cup BadOps, path \in ToolPaths,
        destination \in ToolPaths \cup {NoPath} :
       /\ IF op \in {"move", "copy"} THEN <<path, destination>> \in MovePairs
                                     ELSE destination = NoPath
       /\ \E r \in { executeFilesystem(fs, JState, op, path, "new", destination) } :
              /\ fs' = r.fs
              /\ journal' = r.J.journal
              /\ backups' = r.J.backups
              /\ nextEntry' = r.J.nextEntry
              /\ calls' = Append(calls,
                   [tool |-> "filesystem", op |-> op, path |-> path,
                    destination |-> destination, cmd |-> <<>>,
                    success |-> executeTool(r).success, error |-> executeTool(r).error,
                    audit |-> executeTool(r).audit, handled |-> TRUE,
                    ok |-> r.ok, reads |-> r.reads,
                    changed |-> r.fs # fs, targetKind |-> fs[Resolve(path)].kind,
                    journaled |-> Len(r.J.journal) - Len(journal)])
  /\ UNCHANGED <<fs0, spawned, lastRollback, rbCount, outsideTools>>

\* executeTool(ctx, 'terminal', args): executeTerminal calls execTerminal,
\* which launches the command; the command exits 0 or fails, and either way
\* the call is journalled.
ToolTerminal ==
  /\ Len(calls) < MaxOps
  /\ \E cmd \in Commands, exitOk \in BOOLEAN :
       LET J == journalTerminalCommand(JState, cmd, IF exitOk THEN "Agent OK" ELSE "")
       IN  /\ spawned' = Append(spawned, cmd)
           /\ journal' = J.journal
           /\ backups' = J.backups
           /\ nextEntry' = J.nextEntry
           /\ calls' = Append(calls,
                [tool |-> "terminal", op |-> "run", path |-> NoPath,
                 destination |-> NoPath, cmd |-> cmd,
                 success |-> TRUE, error |-> "",
                 audit |-> executeTool([threw |-> FALSE, message |-> ""]).audit,
                 handled |-> TRUE, ok |-> exitOk, reads |-> {},
                 changed |-> FALSE, targetKind |-> "none", journaled |-> 1])
  /\ UNCHANGED <<fs, fs0, lastRollback, rbCount, outsideTools>>

\* A call that touches neither the tree nor the journal.
PlainCall(toolName, e, handled) ==
  [tool |-> toolName, op |-> "", path |-> NoPath, destination |-> NoPath,
   cmd |-> <<>>, success |-> e.success, error |-> e.error, audit |-> e.audit,
   handled |-> handled, ok |-> e.success, reads |-> {}, changed |-> FALSE,
   targetKind |-> "none", journaled |-> 0]

\* executeTool(ctx, 'think', args): the switch answers by itself with
\* {thought, acknowledged: true}.
ToolThink ==
  /\ Len(calls) < MaxOps
  /\ calls' = Append(calls,
       PlainCall("think", executeTool([threw |-> FALSE, message |-> ""]), TRUE))
  /\ UNCHANGED <<fsVars, journalVars, spawned, lastRollback, rbCount, outsideTools>>

\* executeTool with a name no case handles and the MCP manager does not
\* know: the default branch throws Error('Unknown tool: ...').
ToolUnknown ==
  /\ Len(calls) < MaxOps
  /\ calls' = Append(calls,
       PlainCall("bogus", executeTool([threw |-> TRUE, message |-> "Unknown tool"]), FALSE))
  /\ UNCHANGED <<fsVars, journalVars, spawned, lastRollback, rbCount, outsideTools>>

\* The ids a caller may pass to rollbackEntry: those in the file, and one not.
KnownIds == { journal[i].id : i \in 1..Len(journal) } \cup { <<"entry-", 0>> }

hasRollbackRecord(lines, id) == \E i \in 1..Len(lines) : lines[i].id = rollbackId(id)

\* journal.rollbackEntry(entryId, runId)
RollbackEntry ==
  /\ rbCount < MaxRollbacks
  /\ \E entryId \in KnownIds :
       \E r \in { rollbackEntry(fs, JState, entryId) } :
           /\ fs' = r.fs
           /\ journal' = r.J.journal
           /\ backups' = r.J.backups
           /\ nextEntry' = r.J.nextEntry
           /\ lastRollback' = [kind |-> "entry", entryId |-> entryId,
                               success |-> r.success,
                               hadRecord |-> hasRollbackRecord(journal, entryId),
                               changed |-> r.fs # fs \/ r.J.journal # journal,
                               at |-> Len(calls), first |-> rbCount = 0]
  /\ rbCount' = rbCount + 1
  /\ UNCHANGED <<fs0, calls, spawned, outsideTools>>

\* journal.rollbackRun(runId)
RollbackRun ==
  /\ rbCount < MaxRollbacks
  /\ \E r \in { rollbackRun(fs, JState) } :
         /\ fs' = r.fs
         /\ journal' = r.J.journal
         /\ backups' = r.J.backups
         /\ nextEntry' = r.J.nextEntry
         /\ lastRollback' = [kind |-> "run", entryId |-> <<>>, success |-> r.success,
                             results |-> r.results, journalLen |-> Len(journal),
                             fsChanged |-> r.fs # fs,
                             repeated |-> lastRollback.kind = "run"
                                            /\ lastRollback.at = Len(calls),
                             hadRecord |-> FALSE,
                             changed |-> r.fs # fs \/ r.J.journal # journal,
                             at |-> Len(calls), first |-> rbCount = 0]
  /\ rbCount' = rbCount + 1
  /\ UNCHANGED <<fs0, calls, spawned, outsideTools>>

ToolsNext ==
  \/ ToolFilesystem
  \/ ToolTerminal
  \/ ToolThink
  \/ ToolUnknown
  \/ RollbackEntry
  \/ RollbackRun


\* ------------------------------------------------------------ plan runner
MaxSteps == 3        \* longest plan explored
MaxDeps == 2         \* longest deps array of a step
MaxAttempts == 2     \* largest retry.attempts explored

\* step.params / step.fallbackParams: one record shape for every step type;
\* Undefined stands for an absent fallbackParams.
Undefined == [op |-> "undefined", path |-> <<>>, content |-> "", cmd |-> <<>>]
NoStepParams == [op |-> "", path |-> <<>>, content |-> "", cmd |-> <<>>]
FsStepParams(op, path) == [op |-> op, path |-> path, content |-> "new", cmd |-> <<>>]
TermStepParams(cmd) == [op |-> "", path |-> <<>>, content |-> "", cmd |-> cmd]

\* PlanStep; retry is <<>> when absent, <<attempts>> when given.
PlanStep(id, type, params, deps, fallbackParams, retry) ==
  [id |-> id, type |-> type, params |-> params, deps |-> deps,
   fallbackParams |-> fallbackParams, retry |-> retry]

\* step.retry?.attempts ?? 1
attempts(step) == IF step.retry = <<>> THEN 1 ELSE step.retry[1]

\* (s.deps||[]).includes(id)
depsInclude(deps, id) == \E k \in 1..Len(deps) : deps[k] = id

\* byId.get(id): Map.set keeps the last step inserted under an id.
byId(ss, id) ==
  ss[CHOOSE i \in 1..Len(ss) :
       ss[i].id = id /\ \A j \in (i + 1)..Len(ss) : ss[j].id # id]

\* The keys of indeg in Map insertion order (first occurrence of each id).
RECURSIVE indegKeys(_, _, _)
indegKeys(ss, i, acc) ==
  IF i > Len(ss) THEN acc
  ELSE indegKeys(ss, i + 1,
         IF depsInclude(acc, ss[i].id) THEN acc ELSE Append(acc, ss[i].id))

\* indeg after line 11: one increment per element of every deps array.
RECURSIVE indegOf(_, _, _)
indegOf(ss, id, i) ==
  IF i > Len(ss) THEN 0
  ELSE (IF ss[i].id = id THEN Len(ss[i].deps) ELSE 0) + indegOf(ss, id, i + 1)

\* Line 12: the steps whose in-degree is zero, in key order.
RECURSIVE initialQueue(_, _, _, _)
initialQueue(ss, keys, indeg, q) ==
  IF keys = <<>> THEN q
  ELSE initialQueue(ss, Tail(keys), indeg,
         IF indeg[Head(keys)] = 0 THEN Append(q, byId(ss, Head(keys))) ELSE q)

\* Line 13, the inner steps.forEach for a dequeued step n: every step that
\* lists n.id loses one from its in-degree, once, and is queued at zero.
RECURSIVE relax(_, _, _, _)
relax(ss, n, i, st) ==
  IF i > Len(ss) THEN st
  ELSE IF depsInclude(ss[i].deps, n.id)
    THEN LET nd == st.indeg[ss[i].id] - 1
         IN  relax(ss, n, i + 1,
               [indeg |-> [st.indeg EXCEPT ![ss[i].id] = nd],
                q |-> IF nd = 0 THEN Append(st.q, ss[i]) ELSE st.q])
    ELSE relax(ss, n, i + 1, st)

\* Line 13, the while loop.
RECURSIVE drain(_, _, _)
drain(ss, st, out) ==
  IF st.q = <<>> THEN out
  ELSE drain(ss,
         CHOOSE nx \in { relax(ss, Head(st.q), 1,
                           [indeg |-> st.indeg, q |-> Tail(st.q)]) } : TRUE,
         Append(out, Head(st.q)))

\* topoSort(steps)
topoSort(ss) ==
  LET ids == { ss[i].id : i \in 1..Len(ss) }
      indeg == [id \in ids |-> indegOf(ss, id, 1)]
      out == drain(ss, [indeg |-> indeg,
                        q |-> initialQueue(ss, indegKeys(ss, 1, <<>>), indeg, <<>>)],
                   <<>>)
  IN  IF Len(out) # 0 THEN out ELSE ss

\* evaluatePolicy(step), on the step's type and current params
evaluatePolicy(type, params) ==
  IF type = "filesystem"
       /\ (params.path = <<>> \/ ~startsWith(params.path, allowedRoot))
    THEN [verdict |-> "DENY", reason |-> "path_outside_sandbox"]
  ELSE IF type = "terminal" /\ ~allowedTerminal(params.cmd)
    THEN [verdict |-> "DENY", reason |-> "terminal_cmd_not_whitelisted"]
  ELSE [verdict |-> "ALLOW", reason |-> ""]

\* Mutant: a pre-check that never throws.
preCheckSkipped(type, params) == FALSE

\* preCheck(ctx, step): TRUE when it throws the DENIED error.
preCheck(type, params) == evaluatePolicy(type, params).verdict = "DENY"

\* What a launched command does: prints "Agent OK" and exits 0, exits 0
\* without printing it, or fails.
TermOutcomes == {"agentok", "quiet", "error"}

\* execTerminal(ctx, params): the envelope; the command is launched unchecked.
execTerminal(cmd, outcome) ==
  [ok |-> outcome # "error",
   code |-> IF outcome = "error" THEN "EXEC_ERROR" ELSE "OK",
   stdout |-> IF outcome = "agentok" THEN "Agent OK" ELSE ""]

\* postValidate(ctx, step, result): TRUE when it throws VERIFY_FAIL.
postValidate(type, res) == type = "terminal" /\ res.stdout # "Agent OK"

\* The runner closure of runSteps (lines 22-31, and again 44-52) on the
\* params in force: whether it threw, the envelope's ok, the tree afterwards,
\* whether a handler was called and whether that handler issued its
\* filesystem call or launched its command.
runner(t, type, params, outcome) ==
  IF preCheck(type, params)
    THEN [threw |-> TRUE, ok |-> FALSE, fs |-> t, ran |-> FALSE, acted |-> FALSE]
  ELSE IF type = "filesystem"
    THEN LET r == execFilesystem(t, params.op, params.path, params.content)
         IN  [threw |-> FALSE, ok |-> r.ok, fs |-> r.fs, ran |-> TRUE,
              acted |-> r.acted]
  ELSE IF type = "terminal"
    THEN LET r == execTerminal(params.cmd, outcome)
         IN  [threw |-> postValidate(type, r), ok |-> r.ok, fs |-> t,
              ran |-> TRUE, acted |-> TRUE]
  ELSE [threw |-> FALSE, ok |-> TRUE, fs |-> t, ran |-> FALSE, acted |-> FALSE]

\* withRetry whose loop is not entered (attempts <= attempt): it throws.
NotRun(t) == [threw |-> TRUE, ok |-> FALSE, fs |-> t, ran |-> FALSE, acted |-> FALSE]

Event(type, id) == [type |-> type, id |-> id]
Exec(step, phase, params, acted) ==
  [step |-> step.id, phase |-> phase, type |-> step.type, params |-> params,
   acted |-> acted]

\* const ordered = topoSort(steps)
PlanSort ==
  /\ runPc = "sort"
  /\ \E o \in { topoSort(steps) } :
       /\ ordered' = o
       /\ runPc' = IF Len(o) = 0 THEN "report" ELSE "start"
  /\ stepIdx' = 1
  /\ UNCHANGED <<steps, attempt, ok, retries, fallbacks, events, execs, report,
                 fsVars, outsidePlan>>

\* for (const step of ordered): STEP_START
StepStart ==
  /\ runPc = "start"
  /\ events' = Append(events, Event("STEP_START", ordered[stepIdx].id))
  /\ attempt' = 0
  /\ runPc' = "primary"
  /\ UNCHANGED <<steps, ordered, stepIdx, ok, retries, fallbacks, execs, report,
                 fsVars, outsidePlan>>

\* One turn of withRetry(runner, {attempts}) on the primary params, and the
\* catch of runSteps when it throws.
PrimaryAttempt ==
  /\ runPc = "primary"
  /\ LET step == ordered[stepIdx] IN
     \E outcome \in TermOutcomes :
     \E r \in { IF attempt < attempts(step)
                  THEN runner(fs, step.type, step.params, outcome)
                  ELSE NotRun(fs) } :
       /\ fs' = r.fs
       /\ execs' = IF r.ran
                     THEN Append(execs, Exec(step, "primary", step.params, r.acted))
                     ELSE execs
       /\ IF ~r.threw
            THEN /\ ok' = IF r.ok THEN ok + 1 ELSE ok
                 /\ runPc' = "end"
                 /\ UNCHANGED <<attempt, fallbacks, events>>
          ELSE IF attempt + 1 < attempts(step)
            THEN /\ attempt' = attempt + 1
                 /\ UNCHANGED <<runPc, ok, fallbacks, events>>
          ELSE IF step.fallbackParams # Undefined
            THEN /\ events' = Append(events, Event("FALLBACK_APPLY", step.id))
                 /\ fallbacks' = fallbacks + 1
                 /\ attempt' = 0
                 /\ runPc' = "fallback"
                 /\ UNCHANGED ok
          ELSE /\ events' = Append(events, Event("STEP_FAIL", step.id))
               /\ runPc' = "failed"
               /\ UNCHANGED <<attempt, ok, fallbacks>>
  /\ UNCHANGED <<steps, ordered, stepIdx, retries, report, fs0, outsidePlan>>

\* One turn of the second withRetry, with step.params = step.fallbackParams.
FallbackAttempt ==
  /\ runPc = "fallback"
  /\ LET step == ordered[stepIdx] IN
     \E outcome \in TermOutcomes :
     \E r \in { IF attempt < attempts(step)
                  THEN runner(fs, step.type, step.fallbackParams, outcome)
                  ELSE NotRun(fs) } :
       /\ fs' = r.fs
       /\ execs' = IF r.ran
                     THEN Append(execs,
                            Exec(step, "fallback", step.fallbackParams, r.acted))
                     ELSE execs
       /\ IF ~r.threw
            THEN /\ ok' = IF r.ok THEN ok + 1 ELSE ok
                 /\ runPc' = "end"
                 /\ UNCHANGED <<attempt, events>>
          ELSE IF attempt + 1 < attempts(step)
            THEN /\ attempt' = attempt + 1
                 /\ UNCHANGED <<runPc, ok, events>>
          ELSE /\ events' = Append(events, Event("STEP_FAIL", step.id))
               /\ runPc' = "failed"
               /\ UNCHANGED <<attempt, ok>>
  /\ UNCHANGED <<steps, ordered, stepIdx, retries, fallbacks, report, fs0,
                 outsidePlan>>

\* STEP_END, and on to the next step
StepEnd ==
  /\ runPc = "end"
  /\ events' = Append(events, Event("STEP_END", ordered[stepIdx].id))
  /\ stepIdx' = stepIdx + 1
  /\ runPc' = IF stepIdx < Len(ordered) THEN "start" ELSE "report"
  /\ UNCHANGED <<steps, ordered, attempt, ok, retries, fallbacks, execs, report,
                 fsVars, outsidePlan>>

\* emitRunReport(ctx, ordered.length, ok, retries, fallbacks, startedAt)
RunReport ==
  /\ runPc = "report"
  /\ report' = [steps |-> Len(ordered), ok |-> ok, retries |-> retries,
                fallbacks |-> fallbacks]
  /\ runPc' = "done"
  /\ UNCHANGED <<steps, ordered, stepIdx, attempt, ok, retries, fallbacks, events,
                 execs, fsVars, outsidePlan>>

PlanNext ==
  \/ PlanSort
  \/ StepStart
  \/ PrimaryAttempt
  \/ FallbackAttempt
  \/ StepEnd
  \/ RunReport

\* runSteps entered with a plan: nothing sorted or run yet.
PlanEntry ==
  /\ ordered = <<>> /\ runPc = "sort" /\ stepIdx = 0 /\ attempt = 0
  /\ ok = 0 /\ retries = 0 /\ fallbacks = 0 /\ events = <<>> /\ execs = <<>>
  /\ report = <<>>

\* Plans for the sandbox: one step of any type, over paths inside and outside
\* the root and whitelisted and other commands, with or without fallback.
P_escape == <<"demo_v2", "/", "..", "/", "outside", "/", "main.sh">>
PlanPaths == {P_main, P_outmain, P_passwd, P_escape, <<>>}
StepParams(type) ==
  IF type = "filesystem"
    THEN { FsStepParams(op, path) : op \in FSParamsOps \cup {"delete"}, path \in PlanPaths }
  ELSE IF type = "terminal" THEN { TermStepParams(cmd) : cmd \in Commands }
  ELSE { NoStepParams }
Retries == {<<>>} \cup { <<n>> : n \in 0..MaxAttempts }

SandboxInit ==
  /\ fs \in { t \in InitialTrees : t[Resolve(P_sub)] = None }
  /\ fs0 = fs
  /\ \E type \in {"filesystem", "terminal", "custom"} :
     \E params \in StepParams(type), fallbackParams \in StepParams(type) \cup {Undefined},
        retry \in Retries :
       steps = << PlanStep(1, type, params, <<>>, fallbackParams, retry) >>
  /\ PlanEntry

\* Plans for the ordering: up to MaxSteps steps with ids 1..n, each a custom
\* step or a whitelisted terminal step with a fallback, and any deps array of
\* up to MaxDeps ids (self, later, repeated and missing ids included).
DepsArrays == UNION { [1..k -> 1..MaxSteps] : k \in 0..MaxDeps }
OrderSteps(id) ==
  { PlanStep(id, "custom", NoStepParams, deps, Undefined, <<>>) : deps \in DepsArrays }
  \cup { PlanStep(id, "terminal", TermStepParams(C_main), deps,
                  TermStepParams(C_mainArg), <<>>) : deps \in DepsArrays }

OrderInit ==
  /\ fs = [n \in Nodes |-> None] /\ fs0 = fs
  /\ \E n \in 0..MaxSteps :
       steps \in { ss \in [1..n -> UNION { OrderSteps(id) : id \in 1..MaxSteps }] :
                     \A i \in 1..n : ss[i].id = i }
  /\ PlanEntry

\* startDemoE2E(): the plan s0..s4 (ids 0..4), started in any workspace.
DemoPlan ==
  << PlanStep(0, "filesystem", FsStepParams("write", P_outmain), <<>>,
              FsStepParams("write", P_main), <<>>),
     PlanStep(1, "filesystem", FsStepParams("mkdir", P_root), <<0>>, Undefined, <<>>),
     PlanStep(2, "filesystem", FsStepParams("write", P_main), <<1>>, Undefined, <<>>),
     PlanStep(3, "filesystem", FsStepParams("chmod", P_main), <<2>>, Undefined, <<>>),
     PlanStep(4, "terminal", TermStepParams(C_main), <<3>>, Undefined, <<2>>) >>

DemoInit ==
  /\ fs \in InitialTrees
  /\ fs0 = fs
  /\ steps = DemoPlan
  /\ PlanEntry

\* -------------------------------------------------------- provider router
\* The providers initProviders can register, in registration order (no CLI
\* tool is installed).
ProviderNames == <<"openai", "anthropic", "perplexity", "gemini">>
Providers == { ProviderNames[i] : i \in 1..Len(ProviderNames) }
NoProvider == "none"
NoModel == "none"

\* A provider's configuration: no apiKey (not registered), registered with
\* enabled: false, or registered and available.
ProviderStates == {"unset", "disabled", "available"}

\* client.isAvailable() of the registered client, false when none is registered
isAvailable(cfg, p) == cfg.state[p] = "available"

\* getAvailableProviders(): registration order, filtered
RECURSIVE availableFrom(_, _)
availableFrom(cfg, i) ==
  IF i > Len(ProviderNames) THEN <<>>
  ELSE (IF isAvailable(cfg, ProviderNames[i]) THEN <<ProviderNames[i]>> ELSE <<>>)
         \o availableFrom(cfg, i + 1)
getAvailableProviders(cfg) == availableFrom(cfg, 1)

\* The lower-cased text of the last user message, as a word sequence.
lastUserContent(request) == [i \in 1..Len(request.content) |-> toLowerCase(request.content[i])]

\* content.match(/a|b|.../): some alternative occurs in the text.
matchesAny(content, alternatives) == \E a \in alternatives : includes(content, a)

searchPattern ==
  { <<"search">>, <<"find">>, <<"lookup">>, <<"current">>, <<"latest">>, <<"news">>,
    <<"today">>, <<"what", "is">>, <<"who", "is">> }
codingPattern ==
  { <<"code">>, <<"function">>, <<"class">>, <<"bug">>, <<"debug">>, <<"implement">>,
    <<"refactor">>, <<"fix">>, <<"error">>, <<"compile">>, <<"syntax">> }
analysisPattern ==
  { <<"analyze">>, <<"explain">>, <<"compare">>, <<"review">>, <<"understand">>,
    <<"why">>, <<"how", "does">> }
planningPattern ==
  { <<"plan">>, <<"steps">>, <<"how", "to">>, <<"strategy">>, <<"approach">>,
    <<"breakdown">>, <<"decompose">> }
visionPattern ==
  { <<"image">>, <<"picture">>, <<"photo">>, <<"screenshot">>, <<"look", "at", "this">> }

\* detectTaskType(request)
detectTaskType(request) ==
  LET content == lastUserContent(request)
  IN  IF matchesAny(content, searchPattern) THEN "search"
      ELSE IF matchesAny(content, codingPattern) THEN "coding"
      ELSE IF matchesAny(content, analysisPattern) THEN "analysis"
      ELSE IF matchesAny(content, planningPattern) THEN "planning"
      ELSE IF matchesAny(content, visionPattern) THEN "vision"
      ELSE IF Len(request.tools) > 0 THEN "execution"
      ELSE "conversation"

\* A RoutingRule; an absent match field is the empty set.
RoutingRule(taskType, keywords, toolRequired, provider, model) ==
  [taskType |-> taskType, keywords |-> keywords, toolRequired |-> toolRequired,
   provider |-> provider, model |-> model]

\* DEFAULT_ROUTING_RULES, with env the value of DEFAULT_AI_PROVIDER || 'anthropic'
\* and envModel that of ANTHROPIC_MODEL || OPENAI_MODEL || 'claude-sonnet-4-20250514'.
DEFAULT_ROUTING_RULES(env, envModel) ==
  << RoutingRule({"search"},
       { <<"search">>, <<"find">>, <<"lookup">>, <<"current">>, <<"latest">>,
         <<"news">>, <<"today">> }, {}, "perplexity", "sonar-pro"),
     RoutingRule({"coding"},
       { <<"code">>, <<"function">>, <<"bug">>, <<"debug">>, <<"implement">>,
         <<"refactor">>, <<"typescript">>, <<"python">> }, {}, env, envModel),
     RoutingRule({"analysis"},
       { <<"analyze">>, <<"explain">>, <<"compare">>, <<"review">>, <<"understand">> },
       {}, env, envModel),
     RoutingRule({"planning"},
       { <<"plan">>, <<"steps">>, <<"how", "to">>, <<"strategy">>, <<"approach">> },
       {}, env, envModel),
     RoutingRule({"vision"}, {}, {}, "openai", "gpt-4o"),
     RoutingRule({"execution"}, {},
       {"filesystem", "terminal", "editor", "computer"}, env, envModel) >>

Selection(provider, model, reason) ==
  [provider |-> provider, model |-> model, reason |-> reason]

\* The for loop of selectProvider over rules[i..]: the first rule that is not
\* skipped and whose provider is available, or NoProvider.
RECURSIVE firstRule(_, _, _, _)
firstRule(cfg, request, rules, i) ==
  IF i > Len(rules) THEN Selection(NoProvider, NoModel, "")
  ELSE LET rule == rules[i]
           taskType == detectTaskType(request)
           content == lastUserContent(request)
           skip ==
             \/ rule.taskType # {} /\ taskType \notin rule.taskType
             \/ /\ rule.keywords # {}
                /\ ~matchesAny(content, rule.keywords)
                /\ rule.taskType = {}
             \/ /\ rule.toolRequired # {}
                /\ request.tools # <<>>
                /\ \A k \in 1..Len(request.tools) : request.tools[k] \notin rule.toolRequired
       IN  IF ~skip /\ isAvailable(cfg, rule.provider)
             THEN Selection(rule.provider, rule.model, "rule")
             ELSE firstRule(cfg, request, rules, i + 1)

\* selectProvider(request, forceProvider); provider NoProvider when it throws
\* 'No AI providers available'.
selectProvider(cfg, request, forceProvider) ==
  IF forceProvider # NoProvider /\ isAvailable(cfg, forceProvider)
    THEN Selection(forceProvider, NoModel, "Explicitly requested")
  ELSE LET byRule == firstRule(cfg, request,
                       cfg.rules \o DEFAULT_ROUTING_RULES(cfg.env, cfg.envModel), 1)
           available == getAvailableProviders(cfg)
       IN  IF byRule.provider # NoProvider THEN byRule
           ELSE IF isAvailable(cfg, cfg.defaultProvider)
             THEN Selection(cfg.defaultProvider, NoModel, "Default provider")
           ELSE IF Len(available) > 0
             THEN Selection(available[1], NoModel, "First available provider")
           ELSE Selection(NoProvider, NoModel, "")

\* Mutant: the selected provider is not taken out of the fallback list.
providerChainUnfiltered(cfg, sel) == <<sel.provider>> \o getAvailableProviders(cfg)

\* providerChain: the selected provider, then the other available ones
providerChain(cfg, sel) ==
  <<sel.provider>> \o SelectSeq(getAvailableProviders(cfg), LAMBDA p : p # sel.provider)

\* The provider whose API serves a model name.
servedBy(model) ==
  CASE model = "sonar-pro" -> "perplexity"
    [] model = "gpt-4o" -> "openai"
    [] model = "claude-sonnet-4-20250514" -> "anthropic"
    [] model = "gemini-2.0-flash-exp" -> "gemini"
    [] OTHER -> NoProvider

\* provider.complete(finalRequest): whether the adapter of p returns.  The
\* adapter sends request.model || its default model; works says whether the
\* provider answers the request as given, and a provider asked for a model
\* that is not its own answers with an error.
adapterSucceeds(cfg, p, model) ==
  cfg.works[p] /\ (model = NoModel \/ servedBy(model) = p)

\* The requests complete() may be given: last user message and tool names.
Requests ==
  { [content |-> c, tools |-> <<>>] :
      c \in { <<"Latest", "news">>, <<"fix", "the", "bug">>, <<"compile", "error">>,
              <<"screenshot">> } }
  \cup { [content |-> c, tools |-> t] :
           c \in { <<"hello">>, <<"typescript", "deploy">> },
           t \in { <<>>, <<"filesystem">>, <<"think">> } }

\* config.routing.rules: none, or one keyword-only rule
CustomRules ==
  { <<>>, << RoutingRule({}, { <<"deploy">> }, {}, "gemini", "gemini-2.0-flash-exp") >> }

\* config.routing.default with the DEFAULT_AI_PROVIDER the rules were built
\* from, and the providers a caller forces.
DefaultProviders ==
  { <<"anthropic", "anthropic">>, <<"openai", "openai">>, <<"gemini", "anthropic">> }
ForcedProviders == {NoProvider, "openai"}
EnvModels == {"claude-sonnet-4-20250514", "gpt-4o"}

\* The router as constructed, the request and the forced provider of one
\* call; works says which available providers answer the request as given.
RouterInit ==
  /\ \E st \in [Providers -> ProviderStates] :
     \E w \in { f \in [Providers -> BOOLEAN] :
                  \A p \in Providers : f[p] => st[p] = "available" } :
     \E em \in EnvModels, d \in DefaultProviders, r \in CustomRules,
        req \in Requests, f \in ForcedProviders :
       rconfig = [state |-> st, works |-> w, envModel |-> em,
                  defaultProvider |-> d[1], env |-> d[2], rules |-> r,
                  request |-> req, forceProvider |-> f]
  /\ routerPc = "select"
  /\ chain = <<>> /\ selection = <<>> /\ requested = <<>> /\ response = <<>>

\* complete(): selectProvider and the fallback chain (lines 217-223)
RouterSelect ==
  /\ routerPc = "select"
  /\ \E sel \in { selectProvider(rconfig, rconfig.request, rconfig.forceProvider) } :
       IF sel.provider = NoProvider
         THEN /\ routerPc' = "threw"
              /\ response' = [ok |-> FALSE, provider |-> NoProvider,
                              error |-> "No AI providers available"]
              /\ UNCHANGED <<chain, selection>>
         ELSE /\ selection' = sel
              /\ chain' = providerChain(rconfig, sel)
              /\ routerPc' = "try"
              /\ UNCHANGED response
  /\ UNCHANGED <<rconfig, requested, outsideRouter>>

\* One turn of the for loop over providerChain (lines 225-271)
RouterTry ==
  /\ routerPc = "try"
  /\ chain # <<>>
  /\ LET providerName == Head(chain)
         model == IF providerName = selection.provider THEN selection.model ELSE NoModel
     IN  IF ~isAvailable(rconfig, providerName)
           THEN UNCHANGED <<requested, routerPc, response>>
         ELSE /\ requested' = Append(requested,
                    [provider |-> providerName, model |-> model,
                     reason |-> IF providerName = selection.provider
                                  THEN selection.reason ELSE "Fallback provider"])
              /\ IF adapterSucceeds(rconfig, providerName, model)
                   THEN /\ routerPc' = "returned"
                        /\ response' = [ok |-> TRUE, provider |-> providerName,
                                        error |-> ""]
                   ELSE /\ response' = [ok |-> FALSE, provider |-> providerName,
                                        error |-> "provider failed"]
                        /\ UNCHANGED routerPc
  /\ chain' = Tail(chain)
  /\ UNCHANGED <<rconfig, selection, outsideRouter>>

\* throw lastError || new Error('All AI providers failed') (line 274)
RouterThrow ==
  /\ routerPc = "try"
  /\ chain = <<>>
  /\ routerPc' = "threw"
  /\ response' = IF response = <<>>
                   THEN [ok |-> FALSE, provider |-> NoProvider,
                         error |-> "All AI providers failed"]
                   ELSE response
  /\ UNCHANGED <<rconfig, chain, selection, requested, outsideRouter>>

RouterNext ==
  \/ RouterSelect
  \/ RouterTry
  \/ RouterThrow

\* ------------------------------------------------------------- withRetry
MaxRetryAttempts == 3     \* largest cfg.attempts

\* cfg of withRetry: attempts, and the optional baseMs, factor and jitterPct
\* (<<>> when absent).  Times are in ms, jitterPct in percent.
RetryCfg(n, baseMs, factor, jitterPct) ==
  [attempts |-> n, baseMs |-> baseMs, factor |-> factor, jitterPct |-> jitterPct]

\* x ?? d
orElse(x, d) == IF x = <<>> THEN d ELSE x[1]

RECURSIVE pow(_, _)
pow(b, e) == IF e = 0 THEN 1 ELSE b * pow(b, e - 1)

\* Mutant: the same wait before every retry.
backoffFlat(cfg, n) == orElse(cfg.baseMs, 200)

\* const backoff = base * Math.pow(factor, attempt - 1)
backoff(cfg, n) == orElse(cfg.baseMs, 200) * pow(orElse(cfg.factor, 2), n - 1)

\* Math.random(), in tenths.
Rolls == {0, 5, 9}

\* const jitter = backoff * (Math.random() * jitterPct), rounded down to a ms
jitter(cfg, n, roll) == (backoff(cfg, n) * roll * orElse(cfg.jitterPct, 20)) \div 1000

RetryInit ==
  /\ \E n \in 0..MaxRetryAttempts, baseMs \in {<<>>, <<10>>},
        factor \in {<<>>, <<2>>, <<3>>}, jitterPct \in {<<>>, <<0>>} :
       retryCfg = RetryCfg(n, baseMs, factor, jitterPct)
  /\ retryPc = "loop" /\ retryAttempt = 0 /\ invocations = 0
  /\ sleeps = <<>> /\ lastErr = 0

\* while (attempt < cfg.attempts) { try { return await fn() } ...: fn resolves.
RetryCallOk ==
  /\ retryPc = "loop" /\ retryAttempt < retryCfg.attempts
  /\ invocations' = invocations + 1
  /\ retryPc' = "returned"
  /\ UNCHANGED <<retryCfg, retryAttempt, sleeps, lastErr, outsideRetry>>

\* ... catch (e) { lastErr = e; attempt++; if (attempt >= cfg.attempts) break;
\* await sleep(backoff + jitter) }: fn rejects.  lastErr holds the number of
\* the invocation that threw it, 0 for undefined.
RetryCallFail ==
  /\ retryPc = "loop" /\ retryAttempt < retryCfg.attempts
  /\ invocations' = invocations + 1
  /\ lastErr' = invocations + 1
  /\ retryAttempt' = retryAttempt + 1
  /\ IF retryAttempt + 1 >= retryCfg.attempts
       THEN retryPc' = "thrown" /\ UNCHANGED sleeps
       ELSE /\ \E roll \in Rolls :
                 sleeps' = Append(sleeps, backoff(retryCfg, retryAttempt + 1)
                                            + jitter(retryCfg, retryAttempt + 1, roll))
            /\ UNCHANGED retryPc
  /\ UNCHANGED <<retryCfg, outsideRetry>>

\* The while guard fails before any call (cfg.attempts <= 0): throw lastErr.
RetryExhausted ==
  /\ retryPc = "loop" /\ ~(retryAttempt < retryCfg.attempts)
  /\ retryPc' = "thrown"
  /\ UNCHANGED <<retryCfg, retryAttempt, invocations, sleeps, lastErr, outsideRetry>>

RetryNext ==
  \/ RetryCallOk
  \/ RetryCallFail
  \/ RetryExhausted

\* -------------------------------------------------------- specifications
FsIdle == fs = [n \in Nodes |-> None] /\ fs0 = fs
JournalIdle == journal = <<>> /\ backups = {} /\ nextEntry = 1
ToolsIdle == calls = <<>> /\ spawned = <<>> /\ lastRollback = NoRollback /\ rbCount = 0
PlanIdle ==
  /\ steps = <<>> /\ ordered = <<>> /\ runPc = "idle" /\ stepIdx = 0 /\ attempt = 0
  /\ ok = 0 /\ retries = 0 /\ fallbacks = 0 /\ events = <<>> /\ execs = <<>>
  /\ report = <<>>
RouterIdle ==
  /\ rconfig = <<>> /\ routerPc = "idle" /\ chain = <<>> /\ selection = <<>>
  /\ requested = <<>> /\ response = <<>>
RetryIdle ==
  /\ retryCfg = <<>> /\ retryPc = "idle" /\ retryAttempt = 0 /\ invocations = 0
  /\ sleeps = <<>> /\ lastErr = 0

InitAgent ==
  AgentInit /\ FsIdle /\ JournalIdle /\ ToolsIdle /\ PlanIdle /\ RouterIdle /\ RetryIdle
SpecAgent == InitAgent /\ [][AgentNext]_vars

InitCap ==
  CapInit /\ FsIdle /\ JournalIdle /\ ToolsIdle /\ PlanIdle /\ RouterIdle /\ RetryIdle
SpecCap == InitCap /\ [][AgentNext]_vars

InitTools == ToolsInit /\ AgentIdle /\ PlanIdle /\ RouterIdle /\ RetryIdle
SpecTools == InitTools /\ [][ToolsNext]_vars

\* The dispatcher by itself: tool calls only, no rollback in between.
DispatchNext ==
  \/ ToolFilesystem
  \/ ToolTerminal
  \/ ToolThink
  \/ ToolUnknown
InitDispatch == ToolsInit /\ AgentIdle /\ PlanIdle /\ RouterIdle /\ RetryIdle
SpecDispatch == InitDispatch /\ [][DispatchNext]_vars

InitSandbox ==
  SandboxInit /\ AgentIdle /\ JournalIdle /\ ToolsIdle /\ RouterIdle /\ RetryIdle
SpecSandbox == InitSandbox /\ [][PlanNext]_vars

InitOrder ==
  OrderInit /\ AgentIdle /\ JournalIdle /\ ToolsIdle /\ RouterIdle /\ RetryIdle
SpecOrder == InitOrder /\ [][PlanNext]_vars

InitDemo ==
  DemoInit /\ AgentIdle /\ JournalIdle /\ ToolsIdle /\ RouterIdle /\ RetryIdle
SpecDemo == InitDemo /\ [][PlanNext]_vars

InitRouter ==
  RouterInit /\ AgentIdle /\ FsIdle /\ JournalIdle /\ ToolsIdle /\ PlanIdle /\ RetryIdle
SpecRouter == InitRouter /\ [][RouterNext]_vars

InitRetry ==
  RetryInit /\ AgentIdle /\ FsIdle /\ JournalIdle /\ ToolsIdle /\ PlanIdle /\ RouterIdle
SpecRetry == InitRetry /\ [][RetryNext]_vars

\* ------------------------------------------------------- agent loop claims

\* C1: at every point of a run, and in the returned result, iterations <=
\* maxIterations and toolCalls <= maxToolCalls, and the number of tools actually
\* dispatched never exceeds maxToolCalls (no dispatch once the budget is reached).
C1_BudgetsRespected ==
  /\ iterations <= maxIterations
  /\ totalToolCalls <= maxToolCalls
  /\ toolExecs <= maxToolCalls
  /\ result.returned =>
       /\ result.iterations <= maxIterations
       /\ result.toolCalls <= maxToolCalls
       /\ result.toolCalls = toolExecs

\* A run that hit the tool budget (a call was refused) and used up its iterations.
C1_Witness ==
  /\ result.returned
  /\ maxToolCalls > 0 /\ result.toolCalls = maxToolCalls
  /\ result.iterations = maxIterations
  /\ \E i \in 1..Len(errors) : errors[i] = "Max tool calls reached"

\* The index of the nearest assistant message before position i (0 if none).
PrecedingAssistant(i) ==
  LET S == { j \in 1..(i - 1) : messages[j].role = "assistant" }
  IN  IF S = {} THEN 0 ELSE CHOOSE j \in S : \A k \in S : k <= j

\* C8: every tool-role message carries a tool-call id that matches exactly one
\* tool call of the nearest preceding assistant message of the run.
C8_ToolMessagesMatch ==
  \A i \in 1..Len(messages) :
     messages[i].role = "tool" =>
       LET j == PrecedingAssistant(i)
       IN  /\ j > 0
           /\ Cardinality({ k \in 1..Len(messages[j].tool_calls) :
                  messages[j].tool_calls[k].id = messages[i].tool_call_id }) = 1

\* A returned history holding two assistant turns with tool calls, each answered.
C8_Witness ==
  /\ result.returned
  /\ \E i, j \in 1..Len(messages) :
        /\ i < j
        /\ messages[i].role = "tool" /\ messages[j].role = "tool"
        /\ PrecedingAssistant(i) # PrecedingAssistant(j)

\* ------------------------------------------- dispatcher and journal claims

\* The path the sandbox should judge: the destination of move and copy, the
\* path of every other operation.
JudgedPath(c) == IF c.op \in {"move", "copy"} THEN c.destination ELSE c.path
OutsideRoot(p) == ~IsPrefix(Resolve(allowedRoot), Resolve(p))

\* C3: a filesystem tool call whose path (destination for move and copy) lies
\* outside the allowed root reads nothing and changes nothing in the tree.
C3_OutsidePathTouchesNothing ==
  \A i \in 1..Len(calls) :
     (calls[i].tool = "filesystem" /\ OutsideRoot(JudgedPath(calls[i]))) =>
        (~calls[i].changed /\ calls[i].reads = {})

\* C4: every subprocess launched by a terminal tool call runs a command that
\* matches the whitelist.
C4_OnlyWhitelistedLaunched ==
  \A i \in 1..Len(spawned) : allowedTerminal(spawned[i])

\* A performed, reversible filesystem operation: a write that created or
\* overwrote a file, a mkdir, the delete of a file.
ReversibleOp(c) ==
  /\ c.tool = "filesystem" /\ c.success /\ c.ok
  /\ \/ c.op = "write"
     \/ c.op = "mkdir"
     \/ c.op = "delete" /\ c.targetKind = "file"

\* C5: after a run of reversible filesystem operations on pairwise distinct
\* paths, rollbackRun leaves the tree exactly as it was before the run.
C5_RollbackRunRestores ==
  ( /\ lastRollback.kind = "run" /\ lastRollback.first
    /\ lastRollback.at = Len(calls) /\ Len(calls) >= 1
    /\ \A i \in 1..Len(calls) : ReversibleOp(calls[i])
    /\ \A i, k \in 1..Len(calls) :
         i # k => Resolve(calls[i].path) # Resolve(calls[k].path) )
  => fs = fs0

\* C6: once an entry has a rollback record the original line carries
\* rolledBack = true, and a rollbackEntry call for an id that already has a
\* rollback record fails and changes neither the tree nor the journal.
C6_RolledBackIsFinal ==
  /\ \A i \in 1..Len(journal) :
       hasRollbackRecord(journal, journal[i].id) => journal[i].rolledBack
  /\ (lastRollback.kind = "entry" /\ lastRollback.hadRecord) =>
       (~lastRollback.success /\ ~lastRollback.changed)


\* ------------------------------------------------------ plan runner claims
EventCount(type, id) ==
  Cardinality({ i \in 1..Len(events) : events[i] = Event(type, id) })
HandlerRuns(id, phase) ==
  Cardinality({ i \in 1..Len(execs) : execs[i].step = id /\ execs[i].phase = phase })
Resolved(id) == EventCount("STEP_END", id) + EventCount("STEP_FAIL", id) > 0
DeniedPrimary(s) ==
  /\ s.type \in {"filesystem", "terminal"}
  /\ evaluatePolicy(s.type, s.params).verdict = "DENY"
DeniedSteps == { k \in 1..Len(steps) : DeniedPrimary(steps[k]) }

\* The part of C2 that stands as written: for a filesystem or terminal step
\* whose primary params the policy denies, no handler is called with the
\* primary params, and without a fallback no handler is called at all.
PrimaryNeverRuns ==
  \A k \in DeniedSteps :
    /\ HandlerRuns(steps[k].id, "primary") = 0
    /\ steps[k].fallbackParams = Undefined => HandlerRuns(steps[k].id, "fallback") = 0

\* C2 (as amended): for every filesystem or terminal step whose primary
\* params the policy denies, nothing is executed with the primary params; with
\* no fallback nothing is executed at all; with a fallback, the fallback params
\* are applied exactly once and go through the same pre-check and retry
\* policy, so the handler runs with them at most retry.attempts times (1 by
\* default), at least once when the policy allows them and attempts >= 1, and
\* not at all when the policy denies them too.
C2_DeniedStepSandboxed ==
  /\ PrimaryNeverRuns
  /\ \A k \in DeniedSteps :
       LET s == steps[k]
           runs == HandlerRuns(s.id, "fallback")
           allowed == evaluatePolicy(s.type, s.fallbackParams).verdict = "ALLOW"
       IN  s.fallbackParams # Undefined =>
             /\ EventCount("FALLBACK_APPLY", s.id) <= 1
             /\ Resolved(s.id) => EventCount("FALLBACK_APPLY", s.id) = 1
             /\ runs <= attempts(s)
             /\ ~allowed => runs = 0
             /\ (Resolved(s.id) /\ allowed /\ attempts(s) >= 1) => runs >= 1
             /\ \A i \in 1..Len(execs) :
                  execs[i].step = s.id => execs[i].params = s.fallbackParams

\* A denied step with a fallback has been resolved after its fallback handler
\* ran more than once.
C2_Witness ==
  \E k \in DeniedSteps :
    /\ steps[k].fallbackParams # Undefined
    /\ Resolved(steps[k].id)
    /\ HandlerRuns(steps[k].id, "fallback") > 1

\* C2 as stated: ... and if the step declares a fallback, the fallback
\* handler is run exactly once.
C2_FallbackRunsExactlyOnce ==
  /\ PrimaryNeverRuns
  /\ \A k \in DeniedSteps :
       (steps[k].fallbackParams # Undefined /\ Resolved(steps[k].id))
         => HandlerRuns(steps[k].id, "fallback") = 1

\* The dependency graph of a plan, over the positions of its steps.
DepSet(s) == { s.deps[k] : k \in 1..Len(s.deps) }
UniqueIds(ss) == \A i, j \in 1..Len(ss) : ss[i].id = ss[j].id => i = j
DepsExist(ss) ==
  \A i \in 1..Len(ss) : \A d \in DepSet(ss[i]) : \E j \in 1..Len(ss) : ss[j].id = d
\* Kahn's peeling on sets: what is left when no remaining step is free of
\* remaining dependencies lies on or behind a cycle.
RECURSIVE Peel(_, _)
Peel(ss, S) ==
  LET free == { i \in S : \A j \in S : ss[j].id \notin DepSet(ss[i]) }
  IN  IF free = {} THEN S ELSE Peel(ss, S \ free)
Acyclic(ss) == Peel(ss, 1..Len(ss)) = {}

StartedOnceEach ==
  /\ \A k \in 1..Len(steps) : EventCount("STEP_START", steps[k].id) <= 1
  /\ runPc = "done" => \A k \in 1..Len(steps) : EventCount("STEP_START", steps[k].id) = 1
DepsFinishedFirst ==
  \A i \in 1..Len(events) :
    events[i].type = "STEP_START" =>
      \A k \in 1..Len(steps) :
        steps[k].id = events[i].id =>
          \A d \in DepSet(steps[k]) :
            \E j \in 1..(i - 1) : events[j] = Event("STEP_END", d)

\* C9: for a plan with unique step ids whose dependencies all reference
\* existing steps and form an acyclic graph, each step is started at most
\* once, exactly once when the run ends without a step failure, and no step is
\* started before every step it depends on has finished.
C9_DagOrderRespected ==
  (UniqueIds(steps) /\ DepsExist(steps) /\ Acyclic(steps))
    => (StartedOnceEach /\ DepsFinishedFirst)

\* The same, for plans whose deps arrays also name no step twice.
NoRepeatedDeps(ss) ==
  \A i \in 1..Len(ss) : \A a, b \in 1..Len(ss[i].deps) :
    ss[i].deps[a] = ss[i].deps[b] => a = b
DagOrderWithoutRepeats ==
  (UniqueIds(steps) /\ DepsExist(steps) /\ Acyclic(steps) /\ NoRepeatedDeps(steps))
    => (StartedOnceEach /\ DepsFinishedFirst)
DagOrderWitness ==
  /\ UniqueIds(steps) /\ DepsExist(steps) /\ Acyclic(steps) /\ NoRepeatedDeps(steps)
  /\ Len(steps) = MaxSteps /\ runPc = "done" /\ ordered # steps

\* C10: for a plan whose dependency graph contains a cycle (over all of the
\* steps or only some), the steps run in the order given: the run order is
\* the input order, every step is started at most once and, when the run ends
\* without a step failure, exactly once.
C10_CyclicPlanInInputOrder ==
  (~Acyclic(steps) /\ runPc # "sort") => (ordered = steps /\ StartedOnceEach)

\* The same for plans in which every step lies on or behind a cycle.
AllCyclicInInputOrder ==
  (Len(steps) > 0 /\ Peel(steps, 1..Len(steps)) = 1..Len(steps) /\ runPc # "sort")
    => (ordered = steps /\ StartedOnceEach)

\* ------------------------------------------------------------ router claims
AnyAvailableWorks ==
  \E p \in Providers : isAvailable(rconfig, p) /\ rconfig.works[p]

\* C7: complete returns a successful response whenever at least one available
\* provider's adapter would succeed on the request, whichever provider was
\* selected first, and throws only when every available provider's adapter
\* fails on it.
C7_ReturnsWhenAnyProviderWorks ==
  /\ (routerPc \in {"returned", "threw"} /\ AnyAvailableWorks)
       => (routerPc = "returned" /\ response.ok)
  /\ routerPc = "threw" => ~AnyAvailableWorks

\* What the chain does guarantee: complete throws only after every available
\* provider was asked and failed on the request handed to it, and returns the
\* response of the first provider of the chain that succeeds.
ThrowsOnlyAfterWholeChain ==
  /\ routerPc = "threw" =>
       \A p \in Providers : isAvailable(rconfig, p) =>
         \E i \in 1..Len(requested) :
           /\ requested[i].provider = p
           /\ ~adapterSucceeds(rconfig, p, requested[i].model)
  /\ routerPc = "returned" =>
       /\ response.ok
       /\ requested[Len(requested)].provider = response.provider
       /\ \A i \in 1..(Len(requested) - 1) :
            ~adapterSucceeds(rconfig, requested[i].provider, requested[i].model)
FallbackWitness ==
  routerPc = "returned" /\ Len(requested) = 3

\* ------------------------------------------------ tool dispatcher results
\* C11: a filesystem write through executeTool whose path lies outside the
\* allowed root returns success = false with the error
\* "Denied: path_outside_sandbox", writes nothing, and is followed by
\* TOOL_EXEC_ERROR rather than TOOL_EXEC_END.
C11_OutsideWriteFails ==
  \A i \in 1..Len(calls) :
     (calls[i].tool = "filesystem" /\ calls[i].op = "write"
        /\ OutsideRoot(calls[i].path)) =>
        /\ ~calls[i].success
        /\ calls[i].error = "Denied: path_outside_sandbox"
        /\ ~calls[i].changed
        /\ calls[i].audit = <<"TOOL_EXEC_START", "TOOL_EXEC_ERROR">>

\* C12: a filesystem call whose arguments break the tool's declared schema
\* (op omitted, or outside the enum) is refused before the handler: the
\* result is a failure that identifies VALIDATION_FAIL, and the handler is
\* not invoked.
C12_InvalidArgsRefused ==
  \A i \in 1..Len(calls) :
     (calls[i].tool = "filesystem" /\ calls[i].op \in BadOps) =>
        /\ ~calls[i].success
        /\ calls[i].error = "VALIDATION_FAIL"
        /\ ~calls[i].handled

\* ------------------------------------------------------- sandbox policy
\* C13: for every filesystem step the pre-check has judged, evaluatePolicy
\* answers DENY with reason path_outside_sandbox when the step's path, with
\* '.' and '..' resolved, is neither the allowed root nor below it, and ALLOW
\* when it is.
C13_PolicyJudgesResolvedPath ==
  \A i \in 1..Len(steps) :
     (steps[i].type = "filesystem" /\ EventCount("STEP_START", steps[i].id) > 0) =>
        LET decision == evaluatePolicy("filesystem", steps[i].params)
        IN  IF OutsideRoot(steps[i].params.path)
              THEN /\ decision.verdict = "DENY"
                   /\ decision.reason = "path_outside_sandbox"
              ELSE decision.verdict = "ALLOW"

\* ------------------------------------------------------------- withRetry
ExampleCfg == RetryCfg(3, <<10>>, <<2>>, <<0>>)

\* C14: withRetry calls the closure at most cfg.attempts times, returns at
\* the first call that succeeds (every earlier call failed and was followed
\* by one wait), and throws the last error only after cfg.attempts failed
\* calls.  With {attempts 3, base 10 ms, factor 2, jitter 0} and a closure
\* that fails twice and then succeeds there are exactly 3 calls, separated by
\* waits of at least 10 ms and then at least 20 ms.
C14_RetryContract ==
  /\ retryPc # "idle" =>
        /\ invocations <= retryCfg.attempts
        /\ retryPc = "returned" =>
              /\ invocations = retryAttempt + 1
              /\ Len(sleeps) = retryAttempt
        /\ retryPc = "thrown" =>
              /\ retryAttempt = retryCfg.attempts
              /\ invocations = retryCfg.attempts
              /\ lastErr = invocations
  /\ (retryCfg = ExampleCfg /\ retryPc = "returned" /\ retryAttempt = 2) =>
        /\ invocations = 3
        /\ Len(sleeps) = 2 /\ sleeps[1] >= 10 /\ sleeps[2] >= 20

\* Two failures, then success, under the example configuration.
C14_Witness ==
  /\ retryCfg = ExampleCfg /\ retryPc = "returned" /\ retryAttempt = 2
  /\ sleeps = <<10, 20>>

\* ------------------------------------------------------ plan runner events
StartedIds == { events[i].id : i \in { k \in 1..Len(events) : events[k].type = "STEP_START" } }
EventsOfType(type) == { i \in 1..Len(events) : events[i].type = type }

\* Every started step gets at most one of STEP_END / STEP_FAIL, and exactly
\* one once the run is over.
OneOutcomePerStep ==
  \A id \in StartedIds :
     /\ EventCount("STEP_END", id) + EventCount("STEP_FAIL", id) <= 1
     /\ runPc \in {"done", "failed"} =>
           EventCount("STEP_END", id) + EventCount("STEP_FAIL", id) = 1

\* No step is started after a STEP_FAIL.
NothingStartsAfterFail ==
  \A i \in EventsOfType("STEP_FAIL") : \A j \in EventsOfType("STEP_START") : j < i

\* STEP_END is emitted only for a step whose handler result was ok: the ok
\* counter (if (res?.ok) ok++) has counted every step that ended.
EndOnlyAfterOkResult == Cardinality(EventsOfType("STEP_END")) <= ok

\* C15: every started step is followed by exactly one of STEP_END and
\* STEP_FAIL; STEP_END is emitted only if the handler completed successfully
\* (primary or fallback result ok); a step that still fails after retries and
\* fallback gets STEP_FAIL, and no step starts after that.
C15_StepEndOnlyOnSuccess ==
  /\ OneOutcomePerStep
  /\ EndOnlyAfterOkResult
  /\ NothingStartsAfterFail

\* ------------------------------------------------- agent loop: failures
RouterErrorMsg == UserMsg(<<"An", "error", "occurred">>)
RouterFailures == { i \in 1..Len(messages) : messages[i] = RouterErrorMsg }

\* C16: once a router call has failed, the loop exits: no further router
\* call is made in the run (no second failure, no later assistant message),
\* and the returned result has success = false.
C16_RouterFailureEndsRun ==
  /\ \A i \in RouterFailures :
        \A j \in (i + 1)..Len(messages) :
           messages[j].role # "assistant" /\ messages[j] # RouterErrorMsg
  /\ (result.returned /\ RouterFailures # {}) => ~result.success

AssistantTurns == { i \in 1..Len(messages) : messages[i].role = "assistant" }
LastAssistantText ==
  messages[CHOOSE i \in AssistantTurns : \A j \in AssistantTurns : j <= i].content
NeverFinished ==
  \A i \in AssistantTurns : ~isCompletionMessage(messages[i].content)

\* C17: with maxIterations = 5 and maxToolCalls = 10 and an LM that never
\* produces a completion phrase (and a router that always answers), the run
\* exits after exactly 5 iterations with success = false and finalResponse
\* equal to the text of the last assistant message.
C17_BudgetCapResult ==
  (/\ result.returned
   /\ maxIterations = 5 /\ maxToolCalls = 10
   /\ NeverFinished /\ RouterFailures = {}) =>
     /\ result.iterations = 5
     /\ ~result.success
     /\ result.finalResponse = LastAssistantText

\* What does hold in that scenario: exactly 5 iterations.
CapRunsFiveIterations ==
  (result.returned /\ NeverFinished) => result.iterations = 5

\* The step just taken is a dispatch whose tool failed: its tool message
\* carries {error}.
FailedDispatchStep ==
  /\ agentPc = "tools"
  /\ toolExecs' = toolExecs + 1
  /\ messages'[Len(messages')].content = <<"error">>

\* C18: a failed tool dispatch appends the failure to the errors list and a
\* tool message carrying {error} for that call id to the history, and the
\* loop goes on: the rest of the turn's tool calls stay queued, or the next
\* iteration follows; the run is not ended.
C18_FailedDispatchGoesOn ==
  [][FailedDispatchStep =>
       /\ errors' = Append(errors, "tool error")
       /\ messages' = Append(messages, ToolMsg(<<"error">>, Head(pendingCalls).id))
       /\ pendingCalls' = Tail(pendingCalls)
       /\ agentPc' = IF pendingCalls' = <<>> THEN "loop" ELSE "tools"
       /\ ~result'.returned]_vars

\* A turn of two calls whose first call failed and whose second call was
\* dispatched all the same.
C18_Witness ==
  \E i \in 1..(Len(messages) - 1) :
     /\ messages[i] = ToolMsg(<<"error">>, <<1, 1>>)
     /\ messages[i + 1].role = "tool" /\ messages[i + 1].tool_call_id = <<1, 2>>
     /\ Len(errors) > 0 /\ errors[1] = "tool error"

\* C19: every executeTool call emits TOOL_EXEC_START and then exactly one of
\* TOOL_EXEC_END and TOOL_EXEC_ERROR; the returned success is true exactly
\* when TOOL_EXEC_END was emitted, and false with an error message exactly
\* when TOOL_EXEC_ERROR was; what a handler throws (an unknown tool name, an
\* unknown operation, a failed fs call) comes back as such a failure.
C19_OneOutcomeEventPerCall ==
  \A i \in 1..Len(calls) :
     LET c == calls[i]
     IN  /\ Len(c.audit) = 2
         /\ c.audit[1] = "TOOL_EXEC_START"
         /\ c.audit[2] \in {"TOOL_EXEC_END", "TOOL_EXEC_ERROR"}
         /\ c.success <=> c.audit[2] = "TOOL_EXEC_END"
         /\ (~c.success /\ c.error # "") <=> c.audit[2] = "TOOL_EXEC_ERROR"
         /\ (c.tool = "bogus" \/ c.op \in BadOps) => ~c.success

\* An unknown tool answered with a failure, then a call that succeeded.
C19_Witness ==
  /\ Len(calls) = 2
  /\ calls[1].tool = "bogus" /\ calls[1].error = "Unknown tool"
  /\ calls[1].audit = <<"TOOL_EXEC_START", "TOOL_EXEC_ERROR">>
  /\ calls[2].tool = "filesystem" /\ calls[2].success
  /\ calls[2].audit = <<"TOOL_EXEC_START", "TOOL_EXEC_END">>

\* ------------------------------------------------------------ rollbackRun
\* The ids rollbackRun should attempt on the journal lines: the entries that
\* are reversible, are no rollback records and have not been rolled back yet
\* (no rollback record exists for them), newest first.
RECURSIVE Reversed(_)
Reversed(q) == IF q = <<>> THEN <<>> ELSE Append(Reversed(Tail(q)), Head(q))
StillToUndo(lines) ==
  LET keep == SelectSeq(lines, LAMBDA e : /\ e.canRollback
                                          /\ ~isRollbackRecord(e.id)
                                          /\ ~hasRollbackRecord(lines, e.id))
  IN  Reversed([i \in 1..Len(keep) |-> keep[i].id])
\* The same, reading "rolled back" as the rolledBack flag of the stored line.
UnflaggedToUndo(lines) ==
  LET keep == SelectSeq(lines, LAMBDA e : /\ e.canRollback
                                          /\ ~isRollbackRecord(e.id)
                                          /\ ~e.rolledBack)
  IN  Reversed([i \in 1..Len(keep) |-> keep[i].id])
AttemptedIds == [i \in 1..Len(lastRollback.results) |-> lastRollback.results[i].entryId]
JournalBefore == SubSeq(journal, 1, lastRollback.journalLen)

\* C20: rollbackRun attempts exactly the entries that are reversible, not yet
\* rolled back and not rollback records, newest first; a failed rollback does
\* not stop the remaining attempts; its success is true exactly when every
\* attempted rollback succeeded.
C20_RollbackRunAttempts ==
  lastRollback.kind = "run" =>
     /\ AttemptedIds = StillToUndo(JournalBefore)
     /\ lastRollback.success <=>
           \A i \in 1..Len(lastRollback.results) : lastRollback.results[i].success

\* What holds: the attempts are the lines whose stored flag is unset, newest
\* first, all of them whatever failed, and success is their conjunction.
RollbackRunAttemptsUnflagged ==
  lastRollback.kind = "run" =>
     /\ AttemptedIds = UnflaggedToUndo(JournalBefore)
     /\ lastRollback.success <=>
           \A i \in 1..Len(lastRollback.results) : lastRollback.results[i].success

\* A run of two attempts of which the first failed and the second was made.
FailedAttemptWitness ==
  /\ lastRollback.kind = "run" /\ Len(lastRollback.results) = 2
  /\ ~lastRollback.results[1].success /\ lastRollback.results[2].success
  /\ ~lastRollback.success

\* C21: rollbackRun called twice in succession leaves the filesystem as a
\* single call leaves it: the second of two consecutive calls changes nothing
\* in the tree.
C21_SecondRollbackRunChangesNothing ==
  (lastRollback.kind = "run" /\ lastRollback.repeated) => ~lastRollback.fsChanged

\* ------------------------------------------------------- router fallback
\* The order the router should ask in: the selected provider, then the other
\* available providers as registered.
ExpectedOrder ==
  <<selection.provider>> \o
    SelectSeq(ProviderNames,
              LAMBDA p : rconfig.state[p] = "available" /\ p # selection.provider)
Tried == [i \in 1..Len(requested) |-> requested[i].provider]
ForcedFailsNextWorks ==
  /\ rconfig.forceProvider # NoProvider
  /\ selection.provider = rconfig.forceProvider
  /\ ~rconfig.works[rconfig.forceProvider]
  /\ Len(ExpectedOrder) >= 2 /\ rconfig.works[ExpectedOrder[2]]

\* C22: complete() asks the selected provider first and then the other
\* available providers in registration order, each at most once, and stops
\* at the first success; one AI_REQUEST is recorded per provider asked.  When
\* the forced provider throws and the next provider succeeds, exactly two
\* AI_REQUEST events are recorded and the response is the second provider's.
C22_FallbackChainOrder ==
  (routerPc \in {"try", "returned", "threw"} /\ selection # <<>>) =>
     /\ Len(requested) <= Len(ExpectedOrder)
     /\ Tried = SubSeq(ExpectedOrder, 1, Len(requested))
     /\ \A i, j \in 1..Len(requested) : i # j => Tried[i] # Tried[j]
     /\ \A i \in 1..(Len(requested) - 1) :
           ~adapterSucceeds(rconfig, Tried[i], requested[i].model)
     /\ routerPc = "returned" =>
           /\ response.ok /\ response.provider = Tried[Len(requested)]
           /\ adapterSucceeds(rconfig, response.provider, requested[Len(requested)].model)
     /\ routerPc = "threw" => Len(requested) = Len(ExpectedOrder)
     /\ (routerPc = "returned" /\ ForcedFailsNextWorks) =>
           /\ Len(requested) = 2
           /\ response.provider = ExpectedOrder[2]

\* Three providers available, the forced one throws, the next one answers.
C22_Witness ==
  /\ routerPc = "returned" /\ ForcedFailsNextWorks
  /\ Cardinality({ p \in Providers : rconfig.state[p] = "available" }) = 3
  /\ Len(requested) = 2 /\ response.provider = ExpectedOrder[2]

\* ------------------------------------------------------------- demo plan
\* C23: the demo plan s0..s4, started with or without a directory demo_v2:
\* the primary write of s0 is denied and its fallback applied once, and the
\* emitted run report has stats {steps: 5, ok: 5, retries: 0, fallbacks: 1}.
C23_DemoReport ==
  (steps = DemoPlan /\ runPc = "done") =>
     /\ HandlerRuns(0, "primary") = 0
     /\ EventCount("FALLBACK_APPLY", 0) = 1
     /\ report = [steps |-> 5, ok |-> 5, retries |-> 0, fallbacks |-> 1]

\* What the demo plan does report when demo_v2 is there from the start.
DemoReportWithDirectory ==
  (steps = DemoPlan /\ runPc = "done" /\ fs0[Resolve(P_root)] = Dir) =>
     report = [steps |-> 5, ok |-> 5, retries |-> 0, fallbacks |-> 1]

\* ------------------------------------------------ agent loop: branches
\* The assistant turns that are over: every one but a last turn whose tool
\* calls are still being dispatched.
TurnsOver ==
  { i \in AssistantTurns : ~(agentPc = "tools" /\ \A j \in AssistantTurns : j <= i) }
BudgetWasHit ==
  \/ \E k \in 1..Len(errors) : errors[k] = "Max tool calls reached"
  \/ totalToolCalls >= maxToolCalls

\* C24: a response that carries tool calls never takes the no-tool branch,
\* whatever its finish reason: its tool calls are dispatched, up to
\* maxToolCalls, so the first of them is answered by the next message unless
\* the tool budget was hit.
C24_ToolCallsAlwaysDispatched ==
  \A i \in TurnsOver :
     messages[i].tool_calls # <<>> =>
        \/ /\ i < Len(messages)
           /\ messages[i + 1].role = "tool"
           /\ messages[i + 1].tool_call_id = messages[i].tool_calls[1].id
        \/ BudgetWasHit

ContinuePrompt == UserMsg(<<"Have", "you", "completed">>)
\* The assistant turns with no tool calls and no completion phrase.
IdleTurns ==
  { i \in AssistantTurns :
      messages[i].tool_calls = <<>> /\ ~isCompletionMessage(messages[i].content) }
PromptedAfter(i) == i < Len(messages) /\ messages[i + 1] = ContinuePrompt

\* C25: the first assistant turn of a run with no tool calls and no
\* completion phrase is followed by no injected user message; every later
\* such turn is followed by the continue prompt, at whatever iteration the
\* turns occur.
C25_FirstIdleTurnIsFree ==
  \A i \in IdleTurns :
     IF \A j \in IdleTurns : i <= j THEN ~PromptedAfter(i) ELSE PromptedAfter(i)

\* What holds: the prompt follows such a turn exactly when the turn is not
\* the first iteration of the run.
PromptFollowsIteration ==
  \A i \in IdleTurns :
     PromptedAfter(i) <=> (\E j \in 1..(i - 1) : messages[j].role = "assistant"
                                                   \/ messages[j] = RouterErrorMsg)

\* ------------------------------------------------ plan runner: denials
\* C26: a step whose pre-check is denied is not retried: for the primary
\* params, and for the fallback params, the pre-check runs once and no
\* backoff is waited, whatever the step's attempts.  (attempt counts the
\* failed turns of the current withRetry, each of which was followed by a
\* sleep and leads to one more run of the closure.)
C26_DenialIsNotRetried ==
  /\ (runPc = "primary" /\ preCheck(ordered[stepIdx].type, ordered[stepIdx].params))
        => attempt = 0
  /\ (runPc = "fallback"
        /\ preCheck(ordered[stepIdx].type, ordered[stepIdx].fallbackParams))
        => attempt = 0

\* ------------------------------------------------ router: rule selection
\* The constraints a rule declares, each required of the request: the detected
\* task type is one of the rule's, the last user message holds one of its
\* keywords, the request offers one of its required tools.
DeclaredConstraintsHold(rule, request) ==
  /\ rule.taskType # {} => detectTaskType(request) \in rule.taskType
  /\ rule.keywords # {} => matchesAny(lastUserContent(request), rule.keywords)
  /\ rule.toolRequired # {} =>
        \E k \in 1..Len(request.tools) : request.tools[k] \in rule.toolRequired

\* The provider such a reading selects: that of the first rule, user rules
\* first, whose constraints all hold and whose provider is available, else
\* the default provider if available, else the first available one.
ProviderByDeclaredConstraints(cfg, request) ==
  LET rules == cfg.rules \o DEFAULT_ROUTING_RULES(cfg.env, cfg.envModel)
      hits == { i \in 1..Len(rules) :
                  /\ DeclaredConstraintsHold(rules[i], request)
                  /\ isAvailable(cfg, rules[i].provider) }
      available == getAvailableProviders(cfg)
  IN  IF hits # {}
        THEN rules[CHOOSE i \in hits : \A j \in hits : i <= j].provider
      ELSE IF isAvailable(cfg, cfg.defaultProvider) THEN cfg.defaultProvider
      ELSE IF Len(available) > 0 THEN available[1]
      ELSE NoProvider

\* C27: when no provider is forced, selectProvider returns the provider of
\* the first rule all of whose declared constraints hold and whose provider
\* is available, else the default provider, else the first available one.
C27_SelectByDeclaredConstraints ==
  (routerPc # "select" /\ rconfig.forceProvider = NoProvider /\ selection # <<>>)
    => selection.provider = ProviderByDeclaredConstraints(rconfig, rconfig.request)

\* What selectProvider does keep to: the same, for every request whose last
\* user message holds a keyword of each rule naming its detected task type.
SelectWhenKeywordsAgree ==
  (/\ routerPc # "select" /\ rconfig.forceProvider = NoProvider /\ selection # <<>>
   /\ LET rules == rconfig.rules
                      \o DEFAULT_ROUTING_RULES(rconfig.env, rconfig.envModel)
      IN  \A i \in 1..Len(rules) :
            (rules[i].taskType # {}
               /\ detectTaskType(rconfig.request) \in rules[i].taskType
               /\ rules[i].keywords # {})
              => matchesAny(lastUserContent(rconfig.request), rules[i].keywords))
    => selection.provider = ProviderByDeclaredConstraints(rconfig, rconfig.request)

\* ------------------------------------------------ agent loop: answers
\* The positions of the tool-role messages that answer tool call k of the
\* assistant message at position i.
AnswersTo(i, k) ==
  { j \in (i + 1)..Len(messages) :
      /\ messages[j].role = "tool"
      /\ messages[j].tool_call_id = messages[i].tool_calls[k].id }

\* Only tool-role messages stand between positions i and j.
OnlyToolsBetween(i, j) == \A m \in (i + 1)..(j - 1) : messages[m].role = "tool"

\* C28: at the end of a run every tool call listed in an assistant message is
\* answered by exactly one tool-role message carrying its id, placed before
\* the next assistant or user message.
C28_EveryToolCallAnswered ==
  result.returned =>
    \A i \in 1..Len(messages) :
      messages[i].role = "assistant" =>
        \A k \in 1..Len(messages[i].tool_calls) :
          /\ Cardinality(AnswersTo(i, k)) = 1
          /\ \A j \in AnswersTo(i, k) : OnlyToolsBetween(i, j)

\* What the loop does keep to: no tool call is answered twice, and an answer
\* stands before the next assistant or user message.
AnswersAreSingleAndAdjacent ==
  \A i \in 1..Len(messages) :
    messages[i].role = "assistant" =>
      \A k \in 1..Len(messages[i].tool_calls) :
        /\ Cardinality(AnswersTo(i, k)) <= 1
        /\ \A j \in AnswersTo(i, k) : OnlyToolsBetween(i, j)

\* ------------------------------------------------ dispatcher: journal
\* C29: the dispatcher appends a file_create, file_modify or directory_create
\* entry only when the effect was performed: a write or mkdir the sandbox
\* rejects, or that fails, leaves the journal unchanged.
C29_JournalOnlyPerformedEffects ==
  \A i \in 1..Len(calls) :
    (/\ calls[i].tool = "filesystem"
     /\ calls[i].op \in {"write", "mkdir"}
     /\ ~calls[i].ok)
      => calls[i].journaled = 0

\* The consequence drawn from it: when no call of the run changed the tree,
\* rollbackRun leaves the tree as the run found it.
RollbackSparesUnchangedTree ==
  (/\ lastRollback.kind = "run"
   /\ lastRollback.at = Len(calls)
   /\ \A i \in 1..Len(calls) : ~calls[i].changed)
    => fs = fs0

\* ------------------------------------------------ run reports
\* C30: in every RUN_REPORT, of the agent loop or of the plan runner, the
\* stats satisfy 0 <= ok <= steps.
C30_ReportOkWithinSteps ==
  /\ result.returned =>
        (0 <= result.report.ok /\ result.report.ok <= result.report.steps)
  /\ report # <<>> => (0 <= report.ok /\ report.ok <= report.steps)

\* The plan runner's half: its report counts the steps that ended with ok.
PlanReportOkWithinSteps ==
  report # <<>> => (0 <= report.ok /\ report.ok <= report.steps)

\* The agent loop's half, upper side: ok never exceeds steps.
AgentReportOkAtMostSteps ==
  result.returned => result.report.ok <= result.report.steps

====
